---- MODULE Spec2Model ----
(***************************************************************************)
(* Sigmond build configuration: the resolution of a configuration tree     *)
(* (SigmondConfig.__init__ = _load_config, _apply_env_overrides,           *)
(* _validate_config), the renderers get_cmake_args, write_cache and        *)
(* generate_cmake_presets, and the build path of setup.py that consumes    *)
(* the resolved configuration.                                             *)
(*                                                                         *)
(* A configuration tree is a function from section names to functions from *)
(* keys to values; a key the tree does not set is absent from the domain.  *)
(* Strings are TLA+ strings; None is the marker string below.              *)
(***************************************************************************)
EXTENDS Integers, Sequences, FiniteSets, TLC

VARIABLES
    caller,        \* who constructs the configuration: "cli", "api", "setup",
                   \* "main" (the command-line tool) or "query" (a program that
                   \* calls accessors and renderers)
    command,       \* the subcommand given to main, "" when main is not run
    tomllib,       \* whether a TOML parser could be imported
    importable,    \* whether setup.py can import config_reader
    config_path,   \* the explicit path handed to SigmondConfig, or None
    env,           \* os.environ: variable name -> value, None when unset
    fs,            \* the file system: path -> [status, tree]
    cpu_count,     \* os.cpu_count(); 0 stands for None
    clear_cache,   \* the clear_cache argument the caller passes to the renderers
    pc,            \* position in the construction of SigmondConfig
    cfgobj,        \* the object the caller holds: "none", "sigmond", "fallback"
    config,        \* self.config
    loaded,        \* the tree _load_config returned (history)
    reads,         \* the files opened by _load_config, in order
    output,        \* the lines printed so far
    errors,        \* the violations collected by _validate_config
    raised,        \* the exception the last operation raised, "" when it returned
    args,          \* the value last returned by get_cmake_args
    arg_src,       \* for each element of args, the block of code that emitted it
    steps,         \* the steps of setup.py's build path run so far, in order
    calls,         \* the renderer calls made on the object, in order (history)
    cache_file,    \* the file at write_cache's output_path
    presets_file,  \* the file at generate_cmake_presets' output_path
    exit_code      \* what main returned to sys.exit, NoExit while it runs

vars == <<caller, tomllib, importable, config_path, env, fs, cpu_count, pc,
          clear_cache, cfgobj, config, loaded, reads, output, errors, raised,
          args, arg_src, steps, calls, cache_file, presets_file, command,
          exit_code>>

inputs == <<caller, tomllib, importable, config_path, env, fs, cpu_count,
            clear_cache, command>>

files == <<cache_file, presets_file>>

None == "<none>"

EmptyTree == << >>

----------------------------------------------------------------------------
(* Python helpers *)

\* dict.get(k, dflt)
Get(d, k, dflt) == IF k \in DOMAIN d THEN d[k] ELSE dflt

\* d[k] = v on a dict
Put(d, k, v) == (k :> v) @@ d

\* truth value of an Optional[str]
Truthy(s) == s # None /\ s # ""

UpperAlpha == "ABCDEFGHIJKLMNOPQRSTUVWXYZ"
LowerAlpha == "abcdefghijklmnopqrstuvwxyz"

LowerChar(c) ==
    IF \E i \in 1..Len(UpperAlpha) : SubSeq(UpperAlpha, i, i) = c
    THEN LET i == CHOOSE j \in 1..Len(UpperAlpha) : SubSeq(UpperAlpha, j, j) = c
         IN  SubSeq(LowerAlpha, i, i)
    ELSE c

\* str.lower()
RECURSIVE Lower(_)
Lower(s) == IF s = "" THEN "" ELSE LowerChar(SubSeq(s, 1, 1)) \o Lower(Tail(s))

\* str.startswith(p)
StartsWith(s, p) == Len(s) >= Len(p) /\ SubSeq(s, 1, Len(p)) = p

\* A TOML number: an integer, or a float with an integral value
IntV(n) == [t |-> "int", v |-> n]
FloatV(n) == [t |-> "float", v |-> n]

\* Tagged Python values of the free-form extra_cmake_definitions key
PyList(xs) == [t |-> "list", xs |-> xs]
PyDict(items) == [t |-> "dict", items |-> items]
PyStr(s) == [t |-> "str", s |-> s]
PyBool(b) == [t |-> "bool", b |-> b]

\* str() of a TOML number
NumStr(j) == IF j.t = "int" THEN ToString(j.v) ELSE ToString(j.v) \o ".0"

\* os.cpu_count() or 1
CpuOrOne(cpu) == IF cpu = 0 THEN 1 ELSE cpu

----------------------------------------------------------------------------
(* Schema and defaults *)

DefaultEnsemblesFile ==
    "/Users/johnmeneghini/Documents/LatticeQCD/spectrums/software/sigmond/ensembles.xml"

default_config(cpu) ==
    [build |->
        [skip_query |-> FALSE,
         skip_batch |-> FALSE,
         enable_testing |-> TRUE,
         verbose |-> FALSE,
         precision |-> "double",
         numbers |-> "complex",
         default_file_format |-> "hdf5",
         enable_minuit |-> FALSE,
         enable_grace |-> FALSE,
         build_jobs |-> IntV(CpuOrOne(cpu)),
         batch_install_dir |-> "",
         query_install_dir |-> "",
         extra_cmake_definitions |-> PyList(<< >>),
         default_ensembles_file |-> DefaultEnsemblesFile],
     libraries |->
        [hdf5 |-> [root_dir |-> ""],
         blas |-> [library_path |-> ""],
         lapack |-> [library_path |-> ""],
         accelerate |-> [framework_dir |-> ""],
         minuit2 |-> [include_dir |-> "", library_dir |-> ""],
         grace |-> [include_dir |-> "", library_dir |-> ""]],
     compiler |->
        [c_compiler |-> "",
         cxx_compiler |-> "",
         cxx_flags |-> << >>]]

\* The tree of the file that create_config writes when template is false
MinimalTree ==
    [build |->
        [skip_query |-> FALSE,
         skip_batch |-> FALSE,
         precision |-> "double",
         numbers |-> "complex",
         default_file_format |-> "hdf5",
         enable_minuit |-> FALSE,
         enable_grace |-> FALSE,
         enable_testing |-> TRUE,
         verbose |-> FALSE,
         build_jobs |-> IntV(0),
         batch_install_dir |-> "",
         query_install_dir |-> "",
         extra_cmake_definitions |-> PyList(<< >>),
         default_ensembles_file |-> ""],
     libraries |->
        [hdf5 |-> [root_dir |-> ""],
         blas |-> [library_path |-> ""],
         lapack |-> [library_path |-> ""],
         accelerate |-> [framework_dir |-> ""],
         minuit2 |-> [include_dir |-> "", library_dir |-> ""],
         grace |-> [include_dir |-> "", library_dir |-> ""]],
     compiler |->
        [c_compiler |-> "",
         cxx_compiler |-> "",
         cxx_flags |-> << >>]]

----------------------------------------------------------------------------
(* Source loader *)

\* Path.cwd()/"sigmond.toml", Path.cwd()/".sigmond.toml",
\* Path.home()/".config"/"sigmond.toml", Path(__file__).parent/"sigmond.toml"
search_paths ==
    <<"./sigmond.toml", "./.sigmond.toml", "~/.config/sigmond.toml",
      "/pkg/sigmond.toml">>

ExplicitPath == "/x/explicit.toml"
EnvPath == "/x/env.toml"

AllPaths == {ExplicitPath, EnvPath} \cup {search_paths[i] : i \in DOMAIN search_paths}

\* Path.exists()
Exists(f, p) == p \in DOMAIN f /\ f[p].status # "missing"

\* the first existing path of search_paths, None when there is none
FirstExisting(f) ==
    IF \E i \in DOMAIN search_paths : Exists(f, search_paths[i])
    THEN search_paths[CHOOSE i \in DOMAIN search_paths :
            /\ Exists(f, search_paths[i])
            /\ \A j \in 1..(i - 1) : ~Exists(f, search_paths[j])]
    ELSE None

\* a plausible slip: a named file that does not exist falls through to the
\* next source instead of ending the search
select_config_file_falling_through(cp, e, f) ==
    IF Truthy(cp) /\ Exists(f, cp) THEN cp
    ELSE IF Truthy(e["SIGMOND_CONFIG"]) /\ Exists(f, e["SIGMOND_CONFIG"])
    THEN e["SIGMOND_CONFIG"]
    ELSE FirstExisting(f)

\* the config_file chosen by _load_config
select_config_file(cp, e, f) ==
    IF Truthy(cp) THEN cp
    ELSE IF Truthy(e["SIGMOND_CONFIG"]) THEN e["SIGMOND_CONFIG"]
    ELSE FirstExisting(f)

NoParserWarning ==
    "Warning: tomllib/tomli not available. Using environment variables only."

\* _load_config: the tree returned, the files opened, the lines printed
load_config(tl, cp, e, f, cpu) ==
    IF ~tl
    THEN [config |-> default_config(cpu), reads |-> << >>,
          output |-> <<NoParserWarning>>]
    ELSE LET config_file == select_config_file(cp, e, f) IN
         IF config_file # None /\ Exists(f, config_file)
         THEN IF f[config_file].status = "ok"
              THEN [config |-> f[config_file].tree,
                    reads |-> <<config_file>>,
                    output |-> <<"Loaded Sigmond config from: " \o config_file>>]
              ELSE [config |-> default_config(cpu),
                    reads |-> <<config_file>>,
                    output |-> <<"Warning: Failed to load config file "
                                 \o config_file \o ": parse error">>]
         ELSE [config |-> default_config(cpu), reads |-> << >>,
               output |-> << >>]

----------------------------------------------------------------------------
(* Override merger *)

\* os.environ.get(name, dflt)
EnvGet(e, name, dflt) == IF e[name] = None THEN dflt ELSE e[name]

\* os.environ.get(name, '').lower() in ('1', 'true', 'yes')
EnvTrue(e, name) == Lower(EnvGet(e, name, "")) \in {"1", "true", "yes"}

\* one assignment self.config['build'][key] = value
Assign(key, value) == <<[key |-> key, value |-> value]>>

\* a plausible slip: SIGMOND_SKIP_BATCH written to a misspelt key
env_assignments_misspelt(e) ==
    (IF EnvTrue(e, "SIGMOND_SKIP_QUERY") THEN Assign("skip_query", TRUE) ELSE << >>)
    \o (IF EnvTrue(e, "SIGMOND_SKIP_BATCH") THEN Assign("skip_bach", TRUE) ELSE << >>)
    \o (IF EnvTrue(e, "SIGMOND_VERBOSE") THEN Assign("verbose", TRUE) ELSE << >>)
    \o (IF Truthy(e["DEFAULTENSFILE"])
        THEN Assign("default_ensembles_file", e["DEFAULTENSFILE"]) ELSE << >>)

\* a plausible slip: each flag is assigned the truth value of its variable,
\* so a falsy or unset variable clears a flag the file set
env_assignments_clearing(e) ==
    Assign("skip_query", EnvTrue(e, "SIGMOND_SKIP_QUERY"))
    \o Assign("skip_batch", EnvTrue(e, "SIGMOND_SKIP_BATCH"))
    \o Assign("verbose", EnvTrue(e, "SIGMOND_VERBOSE"))
    \o (IF Truthy(e["DEFAULTENSFILE"])
        THEN Assign("default_ensembles_file", e["DEFAULTENSFILE"]) ELSE << >>)

\* the assignments self.config['build'][key] = value that _apply_env_overrides
\* performs, in program order
env_assignments(e) ==
    (IF EnvTrue(e, "SIGMOND_SKIP_QUERY") THEN Assign("skip_query", TRUE) ELSE << >>)
    \o (IF EnvTrue(e, "SIGMOND_SKIP_BATCH") THEN Assign("skip_batch", TRUE) ELSE << >>)
    \o (IF EnvTrue(e, "SIGMOND_VERBOSE") THEN Assign("verbose", TRUE) ELSE << >>)
    \o (IF Truthy(e["DEFAULTENSFILE"])
        THEN Assign("default_ensembles_file", e["DEFAULTENSFILE"]) ELSE << >>)

RECURSIVE assign_all(_, _)
assign_all(build, todo) ==
    IF todo = << >> THEN build
    ELSE assign_all(Put(build, Head(todo).key, Head(todo).value), Tail(todo))

\* _apply_env_overrides: the exception raised ("" when none) and self.config
\* afterwards.  self.config['build'] raises KeyError when the tree has no
\* build section; that happens at the first assignment, before any change.
apply_env_overrides(cfg, e) ==
    LET todo == env_assignments(e) IN
    IF todo = << >> THEN [raised |-> "", config |-> cfg]
    ELSE IF "build" \notin DOMAIN cfg THEN [raised |-> "KeyError", config |-> cfg]
    ELSE [raised |-> "",
          config |-> [cfg EXCEPT !["build"] = assign_all(@, todo)]]

----------------------------------------------------------------------------
(* Validator *)

\* isinstance(build_jobs, int) and the comparison build_jobs < 0
JobsInvalid(j) == j.t # "int" \/ j.v < 0

\* truth value of dict.get(key) on a record of path strings
HasPath(d, key) == Get(d, key, "") # ""

LibraryWarning(name) ==
    name \o " is enabled but no library paths specified. Auto-detection will be attempted."

feature_warning(cfg, flag, lib, name) ==
    LET build_config == Get(cfg, "build", EmptyTree)
        lib_config == Get(Get(cfg, "libraries", EmptyTree), lib, EmptyTree)
    IN  IF Get(build_config, flag, FALSE)
           /\ ~HasPath(lib_config, "include_dir")
           /\ ~HasPath(lib_config, "library_dir")
        THEN <<LibraryWarning(name)>> ELSE << >>

precision_errors(build_config) ==
    LET precision == Get(build_config, "precision", "double") IN
    IF precision \notin {"double", "single"}
    THEN <<"Invalid precision '" \o precision \o "'. Must be 'double' or 'single'.">>
    ELSE << >>

numbers_errors(build_config) ==
    LET numbers == Get(build_config, "numbers", "complex") IN
    IF numbers \notin {"complex", "real"}
    THEN <<"Invalid numbers type '" \o numbers \o "'. Must be 'complex' or 'real'.">>
    ELSE << >>

file_format_errors(build_config) ==
    LET file_format == Get(build_config, "default_file_format", "hdf5") IN
    IF file_format \notin {"hdf5", "fstream"}
    THEN <<"Invalid file format '" \o file_format \o "'. Must be 'hdf5' or 'fstream'.">>
    ELSE << >>

build_jobs_errors(build_config) ==
    LET build_jobs == Get(build_config, "build_jobs", IntV(0)) IN
    IF JobsInvalid(build_jobs)
    THEN <<"Invalid build_jobs '" \o NumStr(build_jobs)
           \o "'. Must be a non-negative integer.">>
    ELSE << >>

\* a plausible slip: the validator stops at the first failing check
validation_errors_first_only(cfg) ==
    LET build_config == Get(cfg, "build", EmptyTree)
        all == precision_errors(build_config) \o numbers_errors(build_config)
               \o file_format_errors(build_config) \o build_jobs_errors(build_config)
    IN  IF all = << >> THEN << >> ELSE <<all[1]>>

\* the errors list of _validate_config, in program order
validation_errors(cfg) ==
    LET build_config == Get(cfg, "build", EmptyTree) IN
    precision_errors(build_config)
    \o numbers_errors(build_config)
    \o file_format_errors(build_config)
    \o build_jobs_errors(build_config)

\* the warnings list of _validate_config, in program order
validation_warnings(cfg) ==
    LET build_config == Get(cfg, "build", EmptyTree) IN
    feature_warning(cfg, "enable_minuit", "minuit2", "Minuit2")
    \o feature_warning(cfg, "enable_grace", "grace", "Grace")
    \o (IF Get(build_config, "skip_query", FALSE) /\ Get(build_config, "skip_batch", FALSE)
        THEN <<"Both executables are disabled - only Python bindings will be built.">>
        ELSE << >>)

\* the lines _validate_config prints when it does not raise
validation_output(cfg) ==
    LET warnings == validation_warnings(cfg) IN
    IF warnings # << >> /\ Get(Get(cfg, "build", EmptyTree), "verbose", FALSE)
    THEN <<"Configuration warnings:">> \o [i \in DOMAIN warnings |-> "  - " \o warnings[i]]
    ELSE << >>

\* _validate_config: the exception raised ("" when none), the violations and
\* the lines printed
validate_config(cfg) ==
    LET errs == validation_errors(cfg) IN
    IF errs # << >>
    THEN [raised |-> "ValueError", errors |-> errs, output |-> << >>]
    ELSE [raised |-> "", errors |-> << >>, output |-> validation_output(cfg)]

----------------------------------------------------------------------------
(* Flag-vector renderer *)

Whitespace == {" ", "\t", "\n"}

\* str.strip()
RECURSIVE Strip(_)
Strip(s) ==
    IF s = "" THEN ""
    ELSE IF SubSeq(s, 1, 1) \in Whitespace THEN Strip(Tail(s))
    ELSE IF SubSeq(s, Len(s), Len(s)) \in Whitespace THEN Strip(SubSeq(s, 1, Len(s) - 1))
    ELSE s

\* str(x) of a tagged value that is neither a bool nor a list
PyToStr(x) == IF x.t = "str" THEN x.s ELSE NumStr(x)

\* ';'.join(str(x) for x in xs)
RECURSIVE JoinSemi(_)
JoinSemi(xs) ==
    IF xs = << >> THEN ""
    ELSE IF Len(xs) = 1 THEN PyToStr(xs[1])
    ELSE PyToStr(xs[1]) \o ";" \o JoinSemi(Tail(xs))

\* the value vv of a key/value pair of the extra definitions
coerce_value(v) ==
    IF v.t = "bool" THEN (IF v.b THEN "ON" ELSE "OFF")
    ELSE IF v.t = "list" THEN JoinSemi(v.xs)
    ELSE PyToStr(v)

\* the arguments appended inside the loop over a list of extra definitions
RECURSIVE extra_string_args(_)
extra_string_args(xs) ==
    IF xs = << >> THEN << >>
    ELSE LET entry == Head(xs) IN
         (IF entry.t = "str"
          THEN LET s == Strip(entry.s) IN
               IF StartsWith(s, "-D") THEN <<s>> ELSE <<"-D" \o s>>
          ELSE << >>)
         \o extra_string_args(Tail(xs))

\* the items collected from the dict entries of a list of extra definitions
RECURSIVE extra_list_items(_)
extra_list_items(xs) ==
    IF xs = << >> THEN << >>
    ELSE (IF Head(xs).t = "dict" THEN Head(xs).items ELSE << >>)
         \o extra_list_items(Tail(xs))

\* the arguments get_cmake_args emits for build.extra_cmake_definitions
extra_args(build) ==
    LET extra_defs == Get(build, "extra_cmake_definitions", PyList(<< >>))
        items == IF extra_defs.t = "dict" THEN extra_defs.items
                 ELSE IF extra_defs.t = "list" THEN extra_list_items(extra_defs.xs)
                 ELSE << >>
    IN  (IF extra_defs.t = "list" THEN extra_string_args(extra_defs.xs) ELSE << >>)
        \o [i \in DOMAIN items |-> "-D" \o items[i].k \o "=" \o coerce_value(items[i].v)]

core_args(build) ==
    <<"-DPRECISION=" \o Lower(build["precision"]),
      "-DNUMBERS=" \o Lower(build["numbers"]),
      "-DDEFAULT_FILE_FORMAT=" \o Lower(build["default_file_format"])>>

toggle_args(build) ==
    (IF build["skip_query"] THEN <<"-DSKIP_SIGMOND_QUERY=ON">> ELSE << >>)
    \o (IF build["skip_batch"] THEN <<"-DSKIP_SIGMOND_BATCH=ON">> ELSE << >>)
    \o (IF build["enable_minuit"] THEN <<"-DENABLE_MINUIT=ON">> ELSE << >>)
    \o (IF build["enable_grace"] THEN <<"-DENABLE_GRACE=ON">> ELSE << >>)

verbose_args(build) ==
    IF build["verbose"]
    THEN <<"-DSIGMOND_VERBOSE=ON", "-DCMAKE_FIND_DEBUG_MODE=ON">> ELSE << >>

testing_args(build) ==
    IF build["enable_testing"]
    THEN <<"-DENABLE_TESTING=ON">> ELSE <<"-DENABLE_TESTING=OFF">>

install_args(build) ==
    (IF build["batch_install_dir"] # ""
     THEN <<"-DSIGMOND_BATCH_INSTALL_DIR=" \o build["batch_install_dir"]>> ELSE << >>)
    \o (IF build["query_install_dir"] # ""
        THEN <<"-DSIGMOND_QUERY_INSTALL_DIR=" \o build["query_install_dir"]>> ELSE << >>)

ensembles_args(build) ==
    LET default_ens_file == Get(build, "default_ensembles_file", "") IN
    IF default_ens_file # "" THEN <<"-DDEFAULTENSFILE=" \o default_ens_file>> ELSE << >>

\* one optional path definition of a library record
path_arg(libs, lib, key, name) ==
    IF lib \in DOMAIN libs /\ HasPath(libs[lib], key)
    THEN <<"-D" \o name \o "=" \o libs[lib][key]>> ELSE << >>

library_args(build, libs) ==
    path_arg(libs, "hdf5", "root_dir", "HDF5_DIR")
    \o path_arg(libs, "blas", "library_path", "BLAS_LIBRARIES")
    \o path_arg(libs, "lapack", "library_path", "LAPACK_LIBRARIES")
    \o (IF build["enable_minuit"]
        THEN path_arg(libs, "minuit2", "include_dir", "SIGMOND_MINUIT2_INCLUDE_DIR")
             \o path_arg(libs, "minuit2", "library_dir", "SIGMOND_MINUIT2_LIBRARY_DIR")
        ELSE << >>)
    \o (IF build["enable_grace"]
        THEN path_arg(libs, "grace", "include_dir", "SIGMOND_GRACE_INCLUDE_DIR")
             \o path_arg(libs, "grace", "library_dir", "SIGMOND_GRACE_LIBRARY_DIR")
        ELSE << >>)
    \o path_arg(libs, "accelerate", "framework_dir", "SIGMOND_ACCELERATE_FRAMEWORK_DIR")

compiler_args(cfg) ==
    path_arg(cfg, "compiler", "c_compiler", "CMAKE_C_COMPILER")
    \o path_arg(cfg, "compiler", "cxx_compiler", "CMAKE_CXX_COMPILER")

\* a block of arguments, each with the block that emitted it
Tag(src, xs) == [i \in DOMAIN xs |-> [s |-> xs[i], src |-> src]]

\* the keys get_cmake_args subscripts without a default
RequiredBuildKeys ==
    {"precision", "numbers", "default_file_format", "skip_query", "skip_batch",
     "enable_minuit", "enable_grace", "verbose", "enable_testing",
     "batch_install_dir", "query_install_dir"}

\* get_cmake_args raises KeyError
cmake_args_raise(cfg) ==
    \/ "build" \notin DOMAIN cfg
    \/ ~(RequiredBuildKeys \subseteq DOMAIN cfg["build"])
    \/ "libraries" \notin DOMAIN cfg

\* a plausible slip: the extra definitions appended after the compilers
cmake_arg_blocks_extras_last(cfg) ==
    LET build == cfg["build"] IN
    Tag("core", core_args(build))
    \o Tag("toggle", toggle_args(build))
    \o Tag("verbose", verbose_args(build))
    \o Tag("testing", testing_args(build))
    \o Tag("install", install_args(build))
    \o Tag("ensembles", ensembles_args(build))
    \o Tag("library", library_args(build, cfg["libraries"]))
    \o Tag("compiler", compiler_args(cfg))
    \o Tag("extra", extra_args(build))

\* the arguments of get_cmake_args in the order the code appends them
cmake_arg_blocks(cfg) ==
    LET build == cfg["build"] IN
    Tag("core", core_args(build))
    \o Tag("toggle", toggle_args(build))
    \o Tag("verbose", verbose_args(build))
    \o Tag("testing", testing_args(build))
    \o Tag("install", install_args(build))
    \o Tag("ensembles", ensembles_args(build))
    \o Tag("extra", extra_args(build))
    \o Tag("library", library_args(build, cfg["libraries"]))
    \o Tag("compiler", compiler_args(cfg))

\* get_cmake_args: the exception raised ("" when none) and the list returned
get_cmake_args(cfg) ==
    IF cmake_args_raise(cfg)
    THEN [raised |-> "KeyError", args |-> << >>, src |-> << >>]
    ELSE LET blocks == cmake_arg_blocks(cfg) IN
         [raised |-> "",
          args |-> [i \in DOMAIN blocks |-> blocks[i].s],
          src |-> [i \in DOMAIN blocks |-> blocks[i].src]]

----------------------------------------------------------------------------
(* setup.py: the fallback configuration and the build path *)

Digits == "0123456789"

IsDigit(c) == \E i \in 1..Len(Digits) : SubSeq(Digits, i, i) = c

DigitVal(c) == (CHOOSE i \in 1..Len(Digits) : SubSeq(Digits, i, i) = c) - 1

RECURSIVE NatVal(_)
NatVal(s) ==
    IF s = "" THEN 0
    ELSE NatVal(SubSeq(s, 1, Len(s) - 1)) * Len(Digits) + DigitVal(SubSeq(s, Len(s), Len(s)))

\* whether int(s) returns, and its value
IsIntStr(s) ==
    LET body == IF StartsWith(s, "-") \/ StartsWith(s, "+") THEN Tail(s) ELSE s IN
    body # "" /\ \A i \in 1..Len(body) : IsDigit(SubSeq(body, i, i))

IntOfStr(s) ==
    IF StartsWith(s, "-") THEN 0 - NatVal(Tail(s))
    ELSE IF StartsWith(s, "+") THEN NatVal(Tail(s))
    ELSE NatVal(s)

\* FallbackConfig.get_build_jobs
fallback_build_jobs(e, cpu) ==
    IF e["SIGMOND_BUILD_JOBS"] = None THEN CpuOrOne(cpu)
    ELSE IF IsIntStr(e["SIGMOND_BUILD_JOBS"]) THEN IntOfStr(e["SIGMOND_BUILD_JOBS"])
    ELSE 1

\* a plausible slip: no detection, the stored value is returned as it is
get_build_jobs_stored(cfg, cpu) ==
    IF "build" \notin DOMAIN cfg \/ "build_jobs" \notin DOMAIN Get(cfg, "build", EmptyTree)
    THEN [raised |-> "KeyError", jobs |-> 0, config |-> cfg]
    ELSE [raised |-> "", jobs |-> cfg["build"]["build_jobs"].v, config |-> cfg]

\* a plausible slip: the detected count is stored in self.config
get_build_jobs_caching(cfg, cpu) ==
    IF "build" \notin DOMAIN cfg \/ "build_jobs" \notin DOMAIN Get(cfg, "build", EmptyTree)
    THEN [raised |-> "KeyError", jobs |-> 0, config |-> cfg]
    ELSE LET jobs == cfg["build"]["build_jobs"].v IN
         IF jobs <= 0
         THEN [raised |-> "", jobs |-> CpuOrOne(cpu),
               config |-> [cfg EXCEPT !["build"]["build_jobs"] = IntV(CpuOrOne(cpu))]]
         ELSE [raised |-> "", jobs |-> jobs, config |-> cfg]

\* SigmondConfig.get_build_jobs: the exception raised, the value returned and
\* self.config after the call (jobs is a local name: nothing is stored)
get_build_jobs(cfg, cpu) ==
    IF "build" \notin DOMAIN cfg \/ "build_jobs" \notin DOMAIN Get(cfg, "build", EmptyTree)
    THEN [raised |-> "KeyError", jobs |-> 0, config |-> cfg]
    ELSE LET jobs == cfg["build"]["build_jobs"].v IN
         [raised |-> "", jobs |-> IF jobs <= 0 THEN CpuOrOne(cpu) ELSE jobs,
          config |-> cfg]

\* validate_build_environment raises RuntimeError
build_environment_invalid(obj, cfg, e, cpu, py_ok) ==
    \/ ~py_ok
    \/ /\ obj = "sigmond"
       /\ \/ get_build_jobs(cfg, cpu).raised # ""
          \/ get_build_jobs(cfg, cpu).jobs < 1
    \/ /\ obj = "fallback"
       /\ fallback_build_jobs(e, cpu) < 1

\* the keys that config_reader's get_cmake_args, get_compiler_definitions and
\* get_extra_cxx_flags subscript without a default
ReaderBuildKeys ==
    {"skip_query", "skip_batch", "batch_install_dir", "query_install_dir",
     "enable_minuit", "enable_grace", "precision", "numbers", "default_file_format"}

\* CMakeBuild.generate_cmake_args raises KeyError
generate_cmake_args_raise(obj, cfg) ==
    /\ obj = "sigmond"
    /\ \/ "build" \notin DOMAIN cfg
       \/ ~(ReaderBuildKeys \subseteq DOMAIN Get(cfg, "build", EmptyTree))
       \/ "libraries" \notin DOMAIN cfg
       \/ "compiler" \notin DOMAIN cfg
       \/ "cxx_flags" \notin DOMAIN Get(cfg, "compiler", EmptyTree)

----------------------------------------------------------------------------
(* Cache-variable renderers: write_cache and generate_cmake_presets *)

\* the upper-case letter of each lower-case letter
UpperOf ==
    [c \in {SubSeq(LowerAlpha, i, i) : i \in 1..Len(LowerAlpha)} |->
        LET i == CHOOSE j \in 1..Len(LowerAlpha) : SubSeq(LowerAlpha, j, j) = c
        IN  SubSeq(UpperAlpha, i, i)]

\* str.upper()
UpperChar(c) == IF c \in DOMAIN UpperOf THEN UpperOf[c] ELSE c

RECURSIVE Upper(_)
Upper(s) == IF s = "" THEN "" ELSE UpperChar(SubSeq(s, 1, 1)) \o Upper(Tail(s))

\* str.endswith(p)
EndsWith(s, p) == Len(s) >= Len(p) /\ SubSeq(s, Len(s) - Len(p) + 1, Len(s)) = p

\* str.replace(c, r) for a single character c
RECURSIVE Replace(_, _, _)
Replace(s, c, r) ==
    IF s = "" THEN ""
    ELSE (IF SubSeq(s, 1, 1) = c THEN r ELSE SubSeq(s, 1, 1)) \o Replace(Tail(s), c, r)

\* c in s
Contains(s, c) == \E i \in 1..Len(s) : SubSeq(s, i, i) = c

\* s.find(c): the first index of c in s, 0 when there is none
Find(s, c) ==
    IF Contains(s, c)
    THEN CHOOSE i \in 1..Len(s) :
            /\ SubSeq(s, i, i) = c
            /\ \A j \in 1..(i - 1) : SubSeq(s, j, j) # c
    ELSE 0

\* one entry of the insertion-ordered dict cache_vars
Item(k, v) == [k |-> k, v |-> v]

\* a plausible slip: every assignment adds an entry, so a key defined twice
\* is kept twice
dict_set_appending(d, k, v) == Append(d, Item(k, v))

\* cache_vars[k] = v: a key the dict holds keeps its place and takes the new
\* value; a new key goes to the end
dict_set(d, k, v) ==
    IF \E i \in DOMAIN d : d[i].k = k
    THEN [i \in DOMAIN d |-> IF d[i].k = k THEN Item(k, v) ELSE d[i]]
    ELSE Append(d, Item(k, v))

\* a plausible slip: an assignment to a key the dict holds is dropped, so
\* the earlier layer wins
RECURSIVE dict_update_keeping(_, _)
dict_update_keeping(d, items) ==
    IF items = << >> THEN d
    ELSE dict_update_keeping(
            IF \E i \in DOMAIN d : d[i].k = Head(items).k THEN d
            ELSE Append(d, Head(items)),
            Tail(items))

\* cache_vars.update(items), and the loop of assignments over the flag vector
RECURSIVE dict_update(_, _)
dict_update(d, items) ==
    IF items = << >> THEN d
    ELSE dict_update(dict_set(d, Head(items).k, Head(items).v), Tail(items))

\* 1) base cache vars
base_cache_vars ==
    <<Item("CMAKE_BUILD_TYPE", "Release"),
      Item("CMAKE_EXPORT_COMPILE_COMMANDS", "ON"),
      Item("CMAKE_CXX_STANDARD", "17"),
      Item("CMAKE_CXX_STANDARD_REQUIRED", "ON"),
      Item("CMAKE_CXX_EXTENSIONS", "OFF")>>

\* 2) the entries derived from CONDA_PREFIX, none when it is empty or unset
conda_cache_vars(conda_prefix) ==
    IF conda_prefix = "" THEN << >>
    ELSE <<Item("CMAKE_PREFIX_PATH", conda_prefix),
           Item("CMAKE_BUILD_RPATH", conda_prefix \o "/lib"),
           Item("HDF5_ROOT", conda_prefix),
           Item("PYTHON_EXECUTABLE", conda_prefix \o "/bin/python")>>

\* 3) the key and value that one argument of the flag vector assigns:
\* arg[2:].split('=', 1), and "ON" for an argument without '='
RECURSIVE flag_items(_)
flag_items(cmake_args) ==
    IF cmake_args = << >> THEN << >>
    ELSE LET arg == Head(cmake_args)
             body == SubSeq(arg, 3, Len(arg))
             eq == Find(body, "=")
         IN  (IF ~StartsWith(arg, "-D") THEN << >>
              ELSE IF eq > 0
              THEN <<Item(SubSeq(body, 1, eq - 1), SubSeq(body, eq + 1, Len(body)))>>
              ELSE <<Item(body, "ON")>>)
             \o flag_items(Tail(cmake_args))

\* a plausible slip: clearing leaves the compiler keys out, and does not
\* blank them
cache_compiler_items_omitting(cfg, f, clear) ==
    LET c == Get(cfg["compiler"], "c_compiler", "")
        cxx == Get(cfg["compiler"], "cxx_compiler", "")
    IN  (IF ~clear /\ c # "" /\ Exists(f, c)
         THEN <<Item("CMAKE_C_COMPILER", c)>> ELSE << >>)
        \o (IF ~clear /\ cxx # "" /\ Exists(f, cxx)
            THEN <<Item("CMAKE_CXX_COMPILER", cxx)>> ELSE << >>)

\* 4) compilers handling of write_cache
cache_compiler_items(cfg, f, clear) ==
    IF clear
    THEN <<Item("CMAKE_C_COMPILER", ""), Item("CMAKE_CXX_COMPILER", "")>>
    ELSE LET c == Get(cfg["compiler"], "c_compiler", "")
             cxx == Get(cfg["compiler"], "cxx_compiler", "")
         IN  (IF c # "" /\ Exists(f, c) THEN <<Item("CMAKE_C_COMPILER", c)>> ELSE << >>)
             \o (IF cxx # "" /\ Exists(f, cxx)
                 THEN <<Item("CMAKE_CXX_COMPILER", cxx)>> ELSE << >>)

\* compilers handling of generate_cmake_presets
preset_compiler_items(cfg, f, clear) ==
    IF clear
    THEN <<Item("CMAKE_C_COMPILER", ""), Item("CMAKE_CXX_COMPILER", "")>>
    ELSE LET c_compiler == cfg["compiler"]["c_compiler"]
             cxx_compiler == cfg["compiler"]["cxx_compiler"]
         IN  (IF c_compiler # "" /\ Strip(c_compiler) # "" /\ Exists(f, c_compiler)
              THEN <<Item("CMAKE_C_COMPILER", c_compiler)>> ELSE << >>)
             \o (IF cxx_compiler # "" /\ Strip(cxx_compiler) # "" /\ Exists(f, cxx_compiler)
                 THEN <<Item("CMAKE_CXX_COMPILER", cxx_compiler)>> ELSE << >>)

\* a plausible slip: the key suffix is looked at before the value
ctype_suffix_first(k, v) ==
    IF EndsWith(k, "_COMPILER") \/ k = "PYTHON_EXECUTABLE" THEN "FILEPATH"
    ELSE IF EndsWith(k, "_DIR") \/ EndsWith(k, "_ROOT") \/ EndsWith(k, "_PREFIX_PATH")
    THEN "PATH"
    ELSE IF Upper(v) \in {"ON", "OFF", "TRUE", "FALSE"} THEN "BOOL"
    ELSE "STRING"

\* _ctype
ctype(k, v) ==
    LET vv == Upper(v) IN
    IF vv \in {"ON", "OFF", "TRUE", "FALSE"} THEN "BOOL"
    ELSE IF EndsWith(k, "_COMPILER") \/ k = "PYTHON_EXECUTABLE" THEN "FILEPATH"
    ELSE IF \/ EndsWith(k, "_DIR") \/ EndsWith(k, "_ROOT") \/ EndsWith(k, "_PREFIX_PATH")
            \/ k = "CMAKE_PREFIX_PATH"
    THEN "PATH"
    ELSE "STRING"

\* a plausible slip: the quotes are escaped before the backslashes are
\* turned into slashes
q_quotes_first(s) == Replace(Replace(s, "\"", "\\\""), "\\", "/")

\* _q
q(s) == Replace(Replace(s, "\\", "/"), "\"", "\\\"")

\* f'set({k} "{_q(str(v))}" CACHE {typ} "")'
cache_line(k, v) ==
    "set(" \o k \o " \"" \o q(v) \o "\" CACHE " \o ctype(k, v) \o " \"\")"

\* "\n".join(lines) + "\n"
RECURSIVE JoinLines(_)
JoinLines(lines) ==
    IF lines = << >> THEN "\n"
    ELSE IF Len(lines) = 1 THEN lines[1] \o "\n"
    ELSE lines[1] \o "\n" \o JoinLines(Tail(lines))

CondaCacheWarning == "Warning: CONDA_PREFIX not detected. Cache may be suboptimal."
CondaPresetWarning == "Warning: CONDA_PREFIX not detected. Preset may not work correctly."

\* the dict cache_vars of write_cache before it is rendered
cache_vars(cfg, e, f, clear) ==
    dict_update(
        dict_update(
            dict_update(base_cache_vars, conda_cache_vars(EnvGet(e, "CONDA_PREFIX", ""))),
            flag_items(get_cmake_args(cfg).args)),
        cache_compiler_items(cfg, f, clear))

\* write_cache up to the write: the exception raised ("" when none), the text
\* handed to write_text and the lines printed
write_cache(cfg, e, f, clear) ==
    LET warn == IF EnvGet(e, "CONDA_PREFIX", "") = "" THEN <<CondaCacheWarning>> ELSE << >>
    IN  IF get_cmake_args(cfg).raised # "" \/ (~clear /\ "compiler" \notin DOMAIN cfg)
        THEN [raised |-> "KeyError", text |-> "", output |-> warn]
        ELSE LET vars_ == cache_vars(cfg, e, f, clear) IN
             [raised |-> "",
              text |-> JoinLines([i \in DOMAIN vars_ |-> cache_line(vars_[i].k, vars_[i].v)]),
              output |-> warn]

\* a file of the output directory: whether it exists and its text
NoFile == [exists |-> FALSE, text |-> ""]

\* a plausible slip: the target opened for appending
write_text_appending(old, text) == [exists |-> TRUE, text |-> old.text \o text]

\* Path.write_text: the target is replaced by the text
write_text(old, text) == [exists |-> TRUE, text |-> text]

\* the dict cache_vars of generate_cmake_presets
preset_cache_vars(cfg, e, f, clear) ==
    dict_update(
        dict_update(
            dict_update(base_cache_vars, conda_cache_vars(EnvGet(e, "CONDA_PREFIX", ""))),
            flag_items(get_cmake_args(cfg).args)),
        preset_compiler_items(cfg, f, clear))

\* a plausible slip: the build presets carry the stored build_jobs
build_preset_stored_jobs(name, configure, cfg, cpu) ==
    [name |-> name,
     configurePreset |-> configure,
     verbose |-> cfg["build"]["verbose"],
     jobs |-> cfg["build"]["build_jobs"].v]

\* one entry of buildPresets
build_preset(name, configure, cfg, cpu) ==
    [name |-> name,
     configurePreset |-> configure,
     verbose |-> cfg["build"]["verbose"],
     jobs |-> get_build_jobs(cfg, cpu).jobs]

\* the dict presets
presets_document(cfg, e, f, clear, cpu) ==
    [version |-> 5,
     configurePresets |->
        <<[name |-> "sigmond-auto-release",
           displayName |-> "Sigmond Auto Release",
           generator |-> "Unix Makefiles",
           binaryDir |-> "${sourceDir}/../../../build",
           cacheVariables |-> preset_cache_vars(cfg, e, f, clear)],
          [name |-> "sigmond-auto-debug",
           displayName |-> "Sigmond Auto Debug",
           inherits |-> "sigmond-auto-release",
           binaryDir |-> "${sourceDir}/../../../build-debug",
           cacheVariables |-> <<Item("CMAKE_BUILD_TYPE", "Debug")>>]>>,
     buildPresets |->
        <<build_preset("build-auto-release", "sigmond-auto-release", cfg, cpu),
          build_preset("build-auto-debug", "sigmond-auto-debug", cfg, cpu)>>]

\* the document of a target that was never written
NoDocument == [version |-> 0, configurePresets |-> << >>, buildPresets |-> << >>]

\* generate_cmake_presets up to the write: the exception raised ("" when
\* none), the document handed to json.dump, the lines printed and
\* self.config after the call
generate_cmake_presets(cfg, e, f, clear, cpu) ==
    LET warn == IF EnvGet(e, "CONDA_PREFIX", "") = "" THEN <<CondaPresetWarning>> ELSE << >>
    IN  IF \/ get_cmake_args(cfg).raised # ""
           \/ /\ ~clear
              /\ \/ "compiler" \notin DOMAIN cfg
                 \/ ~({"c_compiler", "cxx_compiler"} \subseteq DOMAIN Get(cfg, "compiler", EmptyTree))
           \/ get_build_jobs(cfg, cpu).raised # ""
        THEN [raised |-> "KeyError", doc |-> NoDocument, output |-> warn, config |-> cfg]
        ELSE [raised |-> "", doc |-> presets_document(cfg, e, f, clear, cpu), output |-> warn,
              config |-> get_build_jobs(cfg, cpu).config]

----------------------------------------------------------------------------
(* Query facade: the accessors of SigmondConfig *)

\* the outcome of an accessor: the exception raised ("" when none) and the
\* value returned
Returns(v) == [raised |-> "", value |-> v]
Raises(exc) == [raised |-> exc, value |-> None]

\* self.config['build'][key]
build_value(cfg, key) ==
    IF "build" \in DOMAIN cfg /\ key \in DOMAIN Get(cfg, "build", EmptyTree)
    THEN Returns(cfg["build"][key])
    ELSE Raises("KeyError")

should_skip_query(cfg) == build_value(cfg, "skip_query")
should_skip_batch(cfg) == build_value(cfg, "skip_batch")
is_verbose(cfg) == build_value(cfg, "verbose")
get_precision(cfg) == build_value(cfg, "precision")
get_numbers_type(cfg) == build_value(cfg, "numbers")
get_default_file_format(cfg) == build_value(cfg, "default_file_format")

\* get_extra_cxx_flags: a new list that holds the stored flags
get_extra_cxx_flags(cfg) ==
    IF "compiler" \in DOMAIN cfg /\ "cxx_flags" \in DOMAIN Get(cfg, "compiler", EmptyTree)
    THEN Returns(cfg["compiler"]["cxx_flags"])
    ELSE Raises("KeyError")

\* _get_enabled_optional_libraries
get_enabled_optional_libraries(cfg) ==
    IF {"enable_minuit", "enable_grace"} \subseteq DOMAIN Get(cfg, "build", EmptyTree)
    THEN Returns((IF cfg["build"]["enable_minuit"] THEN <<"minuit2">> ELSE << >>)
                 \o (IF cfg["build"]["enable_grace"] THEN <<"grace">> ELSE << >>))
    ELSE Raises("KeyError")

\* the accessors a caller can name
Accessors ==
    {"should_skip_query", "should_skip_batch", "is_verbose", "get_precision",
     "get_numbers_type", "get_default_file_format", "get_build_jobs",
     "get_extra_cxx_flags", "_get_enabled_optional_libraries"}

\* the call of the accessor called name: the exception raised, the value
\* returned and self.config after the call
accessor(name, cfg, cpu) ==
    LET plain(r) == [raised |-> r.raised, value |-> r.value, config |-> cfg] IN
    IF name = "should_skip_query" THEN plain(should_skip_query(cfg))
    ELSE IF name = "should_skip_batch" THEN plain(should_skip_batch(cfg))
    ELSE IF name = "is_verbose" THEN plain(is_verbose(cfg))
    ELSE IF name = "get_precision" THEN plain(get_precision(cfg))
    ELSE IF name = "get_numbers_type" THEN plain(get_numbers_type(cfg))
    ELSE IF name = "get_default_file_format" THEN plain(get_default_file_format(cfg))
    ELSE IF name = "get_extra_cxx_flags" THEN plain(get_extra_cxx_flags(cfg))
    ELSE IF name = "_get_enabled_optional_libraries"
    THEN plain(get_enabled_optional_libraries(cfg))
    ELSE LET r == get_build_jobs(cfg, cpu) IN
         [raised |-> r.raised, value |-> r.jobs, config |-> r.config]

----------------------------------------------------------------------------
(* Actions *)

\* SigmondConfig.__init__, first statement: self.config = self._load_config(config_path)
LoadConfig ==
    /\ pc = "init"
    /\ LET r == load_config(tomllib, config_path, env, fs, cpu_count) IN
        /\ config' = r.config
        /\ loaded' = r.config
        /\ reads' = reads \o r.reads
        /\ output' = output \o r.output
    /\ pc' = "loaded"
    /\ UNCHANGED <<inputs, exit_code, calls, files, cfgobj, errors, raised, args, arg_src, steps>>

\* SigmondConfig.__init__, second statement: self._apply_env_overrides()
ApplyEnvOverrides ==
    /\ pc = "loaded"
    /\ LET r == apply_env_overrides(config, env) IN
        /\ config' = r.config
        /\ raised' = r.raised
        /\ pc' = IF r.raised = "" THEN "merged" ELSE "crashed"
    /\ UNCHANGED <<inputs, exit_code, calls, files, cfgobj, loaded, reads, output, errors, args, arg_src, steps>>

\* SigmondConfig.__init__, third statement: self._validate_config()
ValidateConfig ==
    /\ pc = "merged"
    /\ LET r == validate_config(config) IN
        /\ errors' = r.errors
        /\ raised' = r.raised
        /\ output' = output \o r.output
        /\ pc' = IF r.raised = "" THEN "ready" ELSE "invalid"
        /\ cfgobj' = IF r.raised = "" THEN "sigmond" ELSE cfgobj
    /\ UNCHANGED <<inputs, exit_code, calls, files, config, loaded, reads, args, arg_src, steps>>

\* the number of calls a caller that holds the object makes on it
MaxCalls == 2

\* the calls left to the caller: a subcommand of main calls its renderer
\* once, a program that holds the object calls MaxCalls times
CallsLeft == Len(calls) < (IF caller \in {"cli", "main"} THEN 1 ELSE MaxCalls)

\* the subcommand of main that calls each renderer
Subcommand ==
    [get_cmake_args |-> "cmake-args",
     write_cache |-> "write-cache",
     generate_cmake_presets |-> "generate-presets"]

\* whether the caller calls the renderer op on the object it holds
Calls(op) ==
    \/ caller \in {"api", "query"}
    \/ caller = "cli" /\ op = "get_cmake_args"
    \/ caller = "main" /\ command = Subcommand[op]

\* a plausible slip: main ignores what the renderer returned
Returned_ignored(code) == IF caller = "main" THEN 0 ELSE exit_code

\* the value main returns after a renderer: code in main, nothing elsewhere
Returned(code) == IF caller = "main" THEN code ELSE exit_code

\* one entry of calls: the operation, the exception it raised ("" when it
\* returned), whether it returned a list or True, and the list returned or
\* the target file after the call
Call(op, exc, ok, value) == [op |-> op, raised |-> exc, ok |-> ok, value |-> value]

\* ' '.join(vals)
RECURSIVE JoinSpace(_)
JoinSpace(xs) ==
    IF xs = << >> THEN ""
    ELSE IF Len(xs) = 1 THEN xs[1]
    ELSE xs[1] \o " " \o JoinSpace(Tail(xs))

\* what the cmake-args subcommand prints
cmake_args_line(vals, as_env) ==
    IF as_env THEN "export CMAKE_ARGS=\"" \o JoinSpace(vals) \o "\"" ELSE JoinSpace(vals)

\* a caller that holds the object calls get_cmake_args; the cmake-args
\* subcommand prints the list and returns 0, and ends with a traceback and
\* exit code 1 when the call raises
GetCmakeArgs ==
    /\ pc = "ready"
    /\ cfgobj = "sigmond"
    /\ Calls("get_cmake_args")
    /\ CallsLeft
    /\ LET r == get_cmake_args(config) IN
        /\ args' = r.args
        /\ arg_src' = r.src
        /\ raised' = r.raised
        /\ calls' = Append(calls, Call("get_cmake_args", r.raised, r.raised = "", r.args))
        /\ exit_code' = Returned(IF r.raised = "" THEN 0 ELSE 1)
        /\ IF caller = "main" /\ r.raised = ""
           THEN \E as_env \in BOOLEAN :
                    output' = Append(output, cmake_args_line(r.args, as_env))
           ELSE UNCHANGED output
    /\ UNCHANGED <<inputs, files, pc, cfgobj, config, loaded, reads, errors, steps>>

CachePath == "/pkg/_sigmond_cache_init.cmake"
PresetsPath == "src/sigmond/cpp/CMakeUserPresets.json"

\* what a write that fails under way leaves of the text: a part of it
PartialTexts(text) == {SubSeq(text, 1, Len(text) \div 2)}

\* a caller that holds the object calls write_cache(CachePath, clear_cache);
\* creating the directory or writing the text can fail. The write-cache
\* subcommand returns 0 when the call returned True and 1 when it returned
\* False, and ends with a traceback and exit code 1 when the call raises
WriteCache ==
    /\ pc = "ready"
    /\ cfgobj = "sigmond"
    /\ Calls("write_cache")
    /\ CallsLeft
    /\ LET r == write_cache(config, env, fs, clear_cache) IN
        IF r.raised # ""
        THEN /\ raised' = r.raised
             /\ output' = output \o r.output
             /\ calls' = Append(calls, Call("write_cache", r.raised, FALSE, cache_file))
             /\ exit_code' = Returned(1)
             /\ UNCHANGED cache_file
        ELSE /\ raised' = ""
             /\ \/ /\ cache_file' = write_text(cache_file, r.text)
                   /\ output' = output \o r.output
                                  \o <<"Wrote CMake init cache: " \o CachePath>>
                   /\ calls' = Append(calls, Call("write_cache", "", TRUE, cache_file'))
                   /\ exit_code' = Returned(0)
                \/ /\ \/ UNCHANGED cache_file
                      \/ \E part \in PartialTexts(r.text) :
                            cache_file' = write_text(cache_file, part)
                   /\ output' = output \o r.output
                                  \o <<"Error writing cache: [Errno] " \o CachePath>>
                   /\ calls' = Append(calls, Call("write_cache", "", FALSE, cache_file'))
                   /\ exit_code' = Returned(1)
    /\ UNCHANGED <<inputs, presets_file, pc, cfgobj, config, loaded, reads, errors,
                   args, arg_src, steps>>

\* the file json.dump wrote: the document it holds
Document(doc) == [exists |-> TRUE, partial |-> FALSE, doc |-> doc]

NoPresets == [exists |-> FALSE, partial |-> FALSE, doc |-> NoDocument]

\* a target that json.dump left unfinished
PartialPresets == [exists |-> TRUE, partial |-> TRUE, doc |-> NoDocument]

\* a caller that holds the object calls
\* generate_cmake_presets(PresetsPath, clear_cache); opening the target or
\* writing the document can fail. The generate-presets subcommand returns 0
\* when the call returned True and 1 when it returned False; it catches an
\* exception of the call, prints it and returns 1
GenerateCmakePresets ==
    /\ pc = "ready"
    /\ cfgobj = "sigmond"
    /\ Calls("generate_cmake_presets")
    /\ CallsLeft
    /\ LET r == generate_cmake_presets(config, env, fs, clear_cache, cpu_count) IN
        /\ raised' = r.raised
        /\ config' = r.config
        /\ IF r.raised # ""
           THEN /\ output' = output \o r.output
                               \o (IF caller = "main"
                                   THEN <<"Error generating presets: " \o r.raised>>
                                   ELSE << >>)
                /\ calls' = Append(calls, Call("generate_cmake_presets", r.raised, FALSE,
                                               presets_file))
                /\ exit_code' = Returned(1)
                /\ UNCHANGED presets_file
           ELSE \/ /\ presets_file' = Document(r.doc)
                   /\ output' = output \o r.output
                                  \o <<"Generated CMake presets: " \o PresetsPath>>
                   /\ calls' = Append(calls, Call("generate_cmake_presets", "", TRUE,
                                                  presets_file'))
                   /\ exit_code' = Returned(0)
                \/ /\ \/ UNCHANGED presets_file
                      \/ presets_file' = PartialPresets
                   /\ output' = output \o r.output
                                  \o <<"Error generating presets: [Errno] " \o PresetsPath>>
                   /\ calls' = Append(calls, Call("generate_cmake_presets", "", FALSE,
                                                  presets_file'))
                   /\ exit_code' = Returned(1)
    /\ UNCHANGED <<inputs, cache_file, pc, cfgobj, loaded, reads, errors,
                   args, arg_src, steps>>

\* a program that holds the object calls one of its accessors
CallAccessor ==
    /\ pc = "ready"
    /\ cfgobj = "sigmond"
    /\ caller = "query"
    /\ CallsLeft
    /\ \E name \in Accessors :
        LET r == accessor(name, config, cpu_count) IN
        /\ raised' = r.raised
        /\ calls' = Append(calls, Call(name, r.raised, r.raised = "", r.value))
        /\ config' = r.config
    /\ UNCHANGED <<inputs, exit_code, files, pc, cfgobj, loaded, reads, output,
                   errors, args, arg_src, steps>>

\* str(e) of the exception that left the constructor
RECURSIVE error_lines(_)
error_lines(errs) ==
    IF errs = << >> THEN "" ELSE "\n  - " \o Head(errs) \o error_lines(Tail(errs))

error_message(exc, errs) ==
    IF exc = "ValueError" THEN "Configuration validation failed:" \o error_lines(errs)
    ELSE "'build'"

\* the subcommands of main
Commands ==
    {"show", "create", "generate-presets", "validate", "cmake-args", "write-cache"}

\* main up to the dispatch: without a subcommand it prints the help and
\* returns 1; create_config loads nothing, every other subcommand starts with
\* load_sigmond_config
Main ==
    /\ caller = "main"
    /\ pc = "main"
    /\ IF command \notin Commands
       THEN /\ output' = Append(output, "usage: configure.py [-h] {" \o "...}")
            /\ exit_code' = 1
            /\ pc' = "exited"
       ELSE /\ pc' = IF command = "create" THEN "create" ELSE "init"
            /\ UNCHANGED <<output, exit_code>>
    /\ UNCHANGED <<inputs, calls, files, cfgobj, config, loaded, reads, errors, raised,
                   args, arg_src, steps>>

\* the file create_config is asked to write
CreatePath == search_paths[1]

\* the create subcommand: create_config('sigmond.toml', template=False) asks
\* before it overwrites a file, writes the minimal configuration, prints the
\* failure of the write, and main returns 0 in every case
CreateConfig ==
    /\ caller = "main"
    /\ pc = "create"
    /\ \E overwrite \in BOOLEAN, written \in BOOLEAN :
        IF Exists(fs, CreatePath) /\ ~overwrite
        THEN /\ output' = Append(output, "Aborted.")
             /\ UNCHANGED fs
        ELSE IF written
        THEN /\ fs' = [fs EXCEPT ![CreatePath] = [status |-> "ok", tree |-> MinimalTree]]
             /\ output' = Append(output, "Created configuration file: sigmond.toml")
        ELSE /\ output' = Append(output, "Error creating file: [Errno] sigmond.toml")
             /\ UNCHANGED fs
    /\ exit_code' = 0
    /\ pc' = "exited"
    /\ UNCHANGED <<caller, tomllib, importable, config_path, env, cpu_count, clear_cache,
                   command, calls, files, cfgobj, config, loaded, reads, errors, raised,
                   args, arg_src, steps>>

\* str(e) of a KeyError
KeyText(key) == "'" \o key \o "'"

\* the key whose subscript raises in self.config['build'][key]
missing_build_key(cfg, key) == IF "build" \in DOMAIN cfg THEN key ELSE "build"

\* the first subscript of get_cmake_args that raises, in program order
first_missing_key(cfg) ==
    LET order == <<"precision", "numbers", "default_file_format", "skip_query",
                   "skip_batch", "enable_minuit", "enable_grace", "verbose",
                   "enable_testing", "batch_install_dir", "query_install_dir">>
        build == Get(cfg, "build", EmptyTree)
    IN  IF "build" \notin DOMAIN cfg THEN "build"
        ELSE IF \E i \in DOMAIN order : order[i] \notin DOMAIN build
        THEN order[CHOOSE i \in DOMAIN order :
                /\ order[i] \notin DOMAIN build
                /\ \A j \in 1..(i - 1) : order[j] \in DOMAIN build]
        ELSE "libraries"

\* str() of a Python bool
BoolStr(b) == IF b THEN "True" ELSE "False"

\* the values show_config prints first: the label, the key read by the
\* accessor, and whether the value is a bool
ShowItems ==
    <<[label |-> "Skip query executable: ", key |-> "skip_query", bool |-> TRUE],
      [label |-> "Skip batch executable: ", key |-> "skip_batch", bool |-> TRUE],
      [label |-> "Precision: ", key |-> "precision", bool |-> FALSE],
      [label |-> "Numbers type: ", key |-> "numbers", bool |-> FALSE],
      [label |-> "Default file format: ", key |-> "default_file_format", bool |-> FALSE],
      [label |-> "Verbose build: ", key |-> "verbose", bool |-> TRUE]>>

\* the lines of show_config for a list of items, up to the first accessor
\* that raises; key is the key that raised, "" when none did
RECURSIVE show_values(_, _)
show_values(cfg, items) ==
    IF items = << >> THEN [lines |-> << >>, key |-> ""]
    ELSE LET item == Head(items)
             r == build_value(cfg, item.key)
         IN  IF r.raised # ""
             THEN [lines |-> << >>, key |-> missing_build_key(cfg, item.key)]
             ELSE LET rest == show_values(cfg, Tail(items)) IN
                  [lines |-> <<item.label
                                \o (IF item.bool THEN BoolStr(r.value) ELSE r.value)>>
                             \o rest.lines,
                   key |-> rest.key]

\* ', '.join(enabled_libs)
RECURSIVE JoinComma(_)
JoinComma(xs) ==
    IF xs = << >> THEN ""
    ELSE IF Len(xs) = 1 THEN xs[1]
    ELSE xs[1] \o ", " \o JoinComma(Tail(xs))

\* the lines show_config prints for an object that was constructed; an
\* exception of an accessor or of get_cmake_args ends it with one more line
show_config(cfg) ==
    LET head == <<"Current Sigmond Configuration:",
                  "========================================">>
        values == show_values(cfg, ShowItems)
        libs == get_enabled_optional_libraries(cfg)
        cmake_args == get_cmake_args(cfg)
        failed(key) == <<"Error loading configuration: " \o KeyText(key)>>
    IN  IF values.key # "" THEN head \o values.lines \o failed(values.key)
        ELSE IF libs.raised # ""
        THEN head \o values.lines
             \o failed(IF "enable_minuit" \in DOMAIN cfg["build"]
                       THEN "enable_grace" ELSE "enable_minuit")
        ELSE LET libs_line ==
                    IF libs.value # << >>
                    THEN "Enabled optional libraries: " \o JoinComma(libs.value)
                    ELSE "Enabled optional libraries: none"
             IN  IF cmake_args.raised # ""
                 THEN head \o values.lines \o <<libs_line>> \o failed(first_missing_key(cfg))
                 ELSE head \o values.lines \o <<libs_line>>
                      \o <<"\nAdditional CMake arguments:">>
                      \o [i \in DOMAIN cmake_args.args |-> "  " \o cmake_args.args[i]]

\* the show subcommand: show_config catches every exception, that of the
\* constructor included, prints it, and main returns 0
ShowConfig ==
    /\ caller = "main"
    /\ command = "show"
    /\ pc \in {"ready", "crashed", "invalid"}
    /\ output' = output
          \o (IF pc = "ready" THEN show_config(config)
              ELSE <<"Error loading configuration: " \o error_message(raised, errors)>>)
    /\ exit_code' = 0
    /\ pc' = "exited"
    /\ UNCHANGED <<inputs, calls, files, cfgobj, config, loaded, reads, errors, raised,
                   args, arg_src, steps>>

\* validate_config('sigmond.toml') of the command-line tool: whether it
\* returned True, and the lines printed
validate_file(cfg) ==
    LET sq == should_skip_query(cfg)
        sb == should_skip_batch(cfg)
        valid == "Configuration file is valid"
        failed(key) ==
            [ok |-> FALSE,
             output |-> <<valid, "Configuration validation failed: "
                                   \o KeyText(missing_build_key(cfg, key))>>]
    IN  IF sq.raised # "" THEN failed("skip_query")
        ELSE IF sq.value /\ sb.raised # "" THEN failed("skip_batch")
        ELSE [ok |-> TRUE,
              output |-> <<valid>>
                \o (IF sq.value /\ sb.value
                    THEN <<"\nWarnings:",
                           "  Both executables are disabled - only Python bindings will be built">>
                    ELSE << >>)]

\* the validate subcommand: main returns 0 when validate_config returned True
\* and 1 when it returned False, which it does when the constructor or an
\* accessor raised
ValidateCommand ==
    /\ caller = "main"
    /\ command = "validate"
    /\ pc \in {"ready", "crashed", "invalid"}
    /\ IF pc = "ready"
       THEN LET r == validate_file(config) IN
            /\ output' = output \o r.output
            /\ exit_code' = IF r.ok THEN 0 ELSE 1
       ELSE /\ output' = Append(output, "Configuration validation failed: "
                                          \o error_message(raised, errors))
            /\ exit_code' = 1
    /\ pc' = "exited"
    /\ UNCHANGED <<inputs, calls, files, cfgobj, config, loaded, reads, errors, raised,
                   args, arg_src, steps>>

\* load_sigmond_config raised in the generate-presets, cmake-args or
\* write-cache subcommand: generate-presets prints the exception and returns
\* 1, the other two do not catch it and the interpreter exits with code 1
LoadFailed ==
    /\ caller = "main"
    /\ command \in {"generate-presets", "cmake-args", "write-cache"}
    /\ pc \in {"crashed", "invalid"}
    /\ output' = IF command = "generate-presets"
                 THEN Append(output, "Error generating presets: "
                                       \o error_message(raised, errors))
                 ELSE output
    /\ exit_code' = 1
    /\ pc' = "exited"
    /\ UNCHANGED <<inputs, calls, files, cfgobj, config, loaded, reads, errors, raised,
                   args, arg_src, steps>>

\* CMakeBuild.run: check_cmake_available
CheckCmakeAvailable ==
    /\ caller = "setup"
    /\ pc = "start"
    /\ steps' = Append(steps, "check_cmake_available")
    /\ \E ok \in BOOLEAN :
        /\ pc' = IF ok THEN "import" ELSE "aborted"
        /\ raised' = IF ok THEN "" ELSE "RuntimeError"
    /\ UNCHANGED <<inputs, exit_code, calls, files, cfgobj, config, loaded, reads, output, errors, args, arg_src>>

\* load_configuration: the import of config_reader; the ImportError branch
\* returns the fallback configuration
LoadConfiguration ==
    /\ caller = "setup"
    /\ pc = "import"
    /\ steps' = Append(steps, "load_configuration")
    /\ IF importable
       THEN /\ pc' = "init"
            /\ UNCHANGED <<cfgobj, output>>
       ELSE /\ pc' = "ready"
            /\ cfgobj' = "fallback"
            /\ output' = Append(output,
                  "Warning: Could not load config_reader. Using fallback configuration.")
    /\ UNCHANGED <<inputs, exit_code, calls, files, config, loaded, reads, errors, raised, args, arg_src>>

\* load_configuration: the except Exception branch, taken when the constructor raised
FallbackOnError ==
    /\ caller = "setup"
    /\ pc \in {"crashed", "invalid"}
    /\ cfgobj' = "fallback"
    /\ output' = Append(output,
          "Error loading configuration: " \o error_message(raised, errors)
          \o ". Using fallback configuration.")
    /\ raised' = ""
    /\ pc' = "ready"
    /\ UNCHANGED <<inputs, exit_code, calls, files, config, loaded, reads, errors, args, arg_src, steps>>

\* CMakeBuild.validate_build_environment
ValidateBuildEnvironment ==
    /\ caller = "setup"
    /\ pc = "ready"
    /\ steps' = Append(steps, "validate_build_environment")
    /\ \E py_ok \in BOOLEAN :
        IF build_environment_invalid(cfgobj, config, env, cpu_count, py_ok)
        THEN pc' = "aborted" /\ raised' = "RuntimeError"
        ELSE pc' = "validated" /\ raised' = ""
    /\ UNCHANGED <<inputs, exit_code, calls, files, cfgobj, config, loaded, reads, output, errors, args, arg_src>>

\* CMakeBuild.prepare_build_directory; os.makedirs can fail
PrepareBuildDirectory ==
    /\ caller = "setup"
    /\ pc = "validated"
    /\ steps' = Append(steps, "prepare_build_directory")
    /\ \E ok \in BOOLEAN :
        /\ pc' = IF ok THEN "prepared" ELSE "aborted"
        /\ raised' = IF ok THEN "" ELSE "OSError"
    /\ UNCHANGED <<inputs, exit_code, calls, files, cfgobj, config, loaded, reads, output, errors, args, arg_src>>

\* CMakeBuild.generate_cmake_args
GenerateCmakeArgs ==
    /\ caller = "setup"
    /\ pc = "prepared"
    /\ steps' = Append(steps, "generate_cmake_args")
    /\ IF generate_cmake_args_raise(cfgobj, config)
       THEN pc' = "aborted" /\ raised' = "KeyError"
       ELSE pc' = "generated" /\ raised' = ""
    /\ UNCHANGED <<inputs, exit_code, calls, files, cfgobj, config, loaded, reads, output, errors, args, arg_src>>

\* CMakeBuild.setup_build_environment
SetupBuildEnvironment ==
    /\ caller = "setup"
    /\ pc = "generated"
    /\ steps' = Append(steps, "setup_build_environment")
    /\ pc' = "env_ready"
    /\ UNCHANGED <<inputs, exit_code, calls, files, cfgobj, config, loaded, reads, output, errors, raised, args, arg_src>>

\* a plausible slip: the failure of the subprocess is recorded and the build
\* goes on to the next step
CmakeStep_continuing(from, name, to) ==
    /\ caller = "setup"
    /\ pc = from
    /\ steps' = Append(steps, name)
    /\ pc' = to
    /\ \E ok \in BOOLEAN : raised' = IF ok THEN "" ELSE "RuntimeError"
    /\ UNCHANGED <<inputs, exit_code, calls, files, cfgobj, config, loaded, reads, output, errors, args, arg_src>>

\* a step that runs cmake as a subprocess and raises when it fails
CmakeStep(from, name, to) ==
    /\ caller = "setup"
    /\ pc = from
    /\ steps' = Append(steps, name)
    /\ \E ok \in BOOLEAN :
        /\ pc' = IF ok THEN to ELSE "aborted"
        /\ raised' = IF ok THEN "" ELSE "RuntimeError"
    /\ UNCHANGED <<inputs, exit_code, calls, files, cfgobj, config, loaded, reads, output, errors, args, arg_src>>

ConfigureCmake == CmakeStep("env_ready", "configure_cmake", "configured")

BuildCmake == CmakeStep("configured", "build_cmake", "built")

InstallCmake == CmakeStep("built", "install_cmake", "installed")

Next ==
    \/ LoadConfig
    \/ ApplyEnvOverrides
    \/ ValidateConfig
    \/ GetCmakeArgs
    \/ WriteCache
    \/ GenerateCmakePresets
    \/ CheckCmakeAvailable
    \/ LoadConfiguration
    \/ FallbackOnError
    \/ ValidateBuildEnvironment
    \/ PrepareBuildDirectory
    \/ GenerateCmakeArgs
    \/ SetupBuildEnvironment
    \/ ConfigureCmake
    \/ BuildCmake
    \/ InstallCmake

----------------------------------------------------------------------------
(* Initial states: the inputs of one invocation *)

MaxJobs == 2

EnvVars ==
    {"SIGMOND_CONFIG", "SIGMOND_SKIP_QUERY", "SIGMOND_SKIP_BATCH",
     "SIGMOND_VERBOSE", "DEFAULTENSFILE", "SIGMOND_BUILD_JOBS", "CONDA_PREFIX"}

NoEnv == [v \in EnvVars |-> None]

Missing == [status |-> "missing", tree |-> EmptyTree]
Bad == [status |-> "bad", tree |-> EmptyTree]
File(tree) == [status |-> "ok", tree |-> tree]

NoFiles == [p \in AllPaths |-> Missing]

\* a tree without some keys of a section
Drop(d, keys) == [k \in (DOMAIN d) \ keys |-> d[k]]

\* an optional boolean of a file: << >> when the file does not set the key
OptBool == {<< >>, <<FALSE>>, <<TRUE>>}
OptString(values) == {<< >>} \cup {<<v>> : v \in values}

SetOpt(d, key, o) == IF o = << >> THEN Drop(d, {key}) ELSE Put(d, key, o[1])

\* the file that records, in batch_install_dir, the path it was stored at
PathTree(p) == [MinimalTree EXCEPT !["build"]["batch_install_dir"] = p]

\* main has not returned
NoExit == 0 - 1

StartState ==
    /\ pc = IF caller = "setup" THEN "start" ELSE IF caller = "main" THEN "main" ELSE "init"
    /\ cfgobj = "none"
    /\ config = EmptyTree
    /\ loaded = EmptyTree
    /\ reads = << >>
    /\ output = << >>
    /\ errors = << >>
    /\ raised = ""
    /\ args = << >>
    /\ arg_src = << >>
    /\ steps = << >>
    /\ calls = << >>
    /\ cache_file = NoFile
    /\ presets_file = NoPresets
    /\ exit_code = NoExit

\* Loader inputs: which files exist and parse, the explicit path, SIGMOND_CONFIG
InitLoader ==
    /\ caller = "cli"
    /\ clear_cache = FALSE
    /\ importable = TRUE
    /\ cpu_count \in {0, 2}
    /\ tomllib \in BOOLEAN
    /\ config_path \in {None, "", ExplicitPath}
    /\ \E ec \in {None, "", EnvPath} : env = [NoEnv EXCEPT !["SIGMOND_CONFIG"] = ec]
    /\ \E st \in [AllPaths -> {"missing", "bad", "ok"}] :
        /\ st[search_paths[3]] # "bad"
        /\ st[search_paths[4]] # "bad"
        /\ ~tomllib => \A p \in AllPaths : st[p] = "ok"
        /\ cpu_count = 0 => \A p \in AllPaths : st[p] # "ok"
        /\ fs = [p \in AllPaths |->
                    IF st[p] = "ok" THEN File(PathTree(p))
                    ELSE IF st[p] = "bad" THEN Bad ELSE Missing]

EnvFlagValues == {None, "", "no", "0", "false", "2", "yes", "YES", "True", "1"}

Flags ==
    {<<"skip_query", "SIGMOND_SKIP_QUERY">>,
     <<"skip_batch", "SIGMOND_SKIP_BATCH">>,
     <<"verbose", "SIGMOND_VERBOSE">>}

Shape(tree, shape) ==
    IF shape = "full" THEN tree
    ELSE IF shape = "no_build" THEN Drop(tree, {"build"})
    ELSE Drop(tree, {"libraries", "compiler"})

\* Merger inputs: one flag set or left out by the file, every value of its
\* variable, the other variables set or not, and the shape of the file
InitMerge ==
    /\ caller = "cli"
    /\ clear_cache = FALSE
    /\ importable = TRUE
    /\ tomllib = TRUE
    /\ cpu_count = 2
    /\ config_path = ExplicitPath
    /\ \E focus \in Flags, o \in OptBool, ev \in EnvFlagValues,
          others \in {None, "yes"}, ens \in {None, "", "/data/ens.xml"},
          shape \in {"full", "no_build", "build_only"} :
        /\ env = [v \in EnvVars |->
                    IF v = focus[2] THEN ev
                    ELSE IF v \in {f[2] : f \in Flags} THEN others
                    ELSE IF v = "DEFAULTENSFILE" THEN ens
                    ELSE None]
        /\ fs = [NoFiles EXCEPT ![ExplicitPath] =
                    File(Shape([MinimalTree EXCEPT !["build"] = SetOpt(@, focus[1], o)],
                               shape))]

JobValues == {IntV(n) : n \in (0 - 1)..MaxJobs} \cup {FloatV(MaxJobs)}

\* Validator inputs: every combination of legal, illegal and absent values of
\* the four checked keys
InitValidate ==
    /\ caller = "cli"
    /\ clear_cache = FALSE
    /\ importable = TRUE
    /\ tomllib = TRUE
    /\ cpu_count = 2
    /\ config_path = None
    /\ \E p \in OptString({"double", "single", "bogus", "Double"}),
          n \in OptString({"complex", "real", "bogus"}),
          f \in OptString({"hdf5", "fstream", "bogus"}),
          j \in {<< >>} \cup {<<v>> : v \in JobValues},
          verbose \in BOOLEAN, minuit \in BOOLEAN :
        /\ env = [NoEnv EXCEPT !["SIGMOND_VERBOSE"] = IF verbose THEN "1" ELSE None]
        /\ fs = [NoFiles EXCEPT ![search_paths[1]] =
                    File([MinimalTree EXCEPT !["build"] =
                        SetOpt(SetOpt(SetOpt(SetOpt(Put(@, "enable_minuit", minuit),
                            "precision", p), "numbers", n), "default_file_format", f),
                            "build_jobs", j)])]

ExtraLists ==
    {PyList(<< >>),
     PyList(<<PyStr("FOO"), PyDict(<<[k |-> "BAZ", v |-> PyBool(TRUE)]>>),
              PyStr("BAR=2"), PyStr(" -DCMAKE_C_COMPILER=cc ")>>),
     PyDict(<<[k |-> "PRECISION", v |-> PyStr("single")],
              [k |-> "LIST", v |-> PyList(<<PyStr("a"), IntV(MaxJobs)>>)]>>)}

Path(on, p) == IF on THEN p ELSE ""

\* Renderer inputs: valid complete files with each group of definitions
\* present or not
InitRender ==
    /\ caller = "cli"
    /\ clear_cache = FALSE
    /\ importable = TRUE
    /\ tomllib = TRUE
    /\ cpu_count = 2
    /\ config_path = ExplicitPath
    /\ env = NoEnv
    /\ \E sq \in BOOLEAN, sb \in BOOLEAN, mi \in BOOLEAN, gr \in BOOLEAN,
          vb \in BOOLEAN, te \in BOOLEAN, inst \in BOOLEAN, ens \in BOOLEAN,
          libs \in BOOLEAN, comp \in BOOLEAN, extra \in ExtraLists :
        fs = [NoFiles EXCEPT ![ExplicitPath] = File(
            [build |->
                [skip_query |-> sq, skip_batch |-> sb, enable_testing |-> te,
                 verbose |-> vb, precision |-> IF te THEN "single" ELSE "double",
                 numbers |-> IF vb THEN "real" ELSE "complex",
                 default_file_format |-> IF sq THEN "fstream" ELSE "hdf5",
                 enable_minuit |-> mi, enable_grace |-> gr,
                 build_jobs |-> IntV(IF sb THEN MaxJobs ELSE 0),
                 batch_install_dir |-> Path(inst, "/opt/batch"),
                 query_install_dir |-> Path(inst, "/opt/query"),
                 extra_cmake_definitions |-> extra,
                 default_ensembles_file |-> Path(ens, "/data/ensembles.xml")],
             libraries |->
                [hdf5 |-> [root_dir |-> Path(libs, "/opt/hdf5")],
                 blas |-> [library_path |-> Path(libs, "/opt/lib/libblas.so")],
                 lapack |-> [library_path |-> Path(libs, "/opt/lib/liblapack.so")],
                 accelerate |-> [framework_dir |-> Path(libs, "/System/Accelerate")],
                 minuit2 |-> [include_dir |-> Path(libs, "/opt/minuit2/include"),
                              library_dir |-> Path(libs, "/opt/minuit2/lib")],
                 grace |-> [include_dir |-> Path(libs, "/opt/grace/include"),
                            library_dir |-> Path(libs, "/opt/grace/lib")]],
             compiler |->
                [c_compiler |-> Path(comp, "/usr/bin/cc"),
                 cxx_compiler |-> Path(comp, "/usr/bin/c++"),
                 cxx_flags |-> << >>]])]

SetupTrees ==
    {MinimalTree,
     [MinimalTree EXCEPT !["build"]["precision"] = "bogus"],
     [MinimalTree EXCEPT !["build"]["build_jobs"] = IntV(MaxJobs)],
     Drop(MinimalTree, {"build"}),
     [MinimalTree EXCEPT !["build"] = Drop(@, {"build_jobs", "precision"})]}

\* setup.py inputs: a build of the extension
InitSetup ==
    /\ caller = "setup"
    /\ clear_cache = FALSE
    /\ tomllib = TRUE
    /\ importable \in BOOLEAN
    /\ cpu_count \in {0, 2}
    /\ config_path = None
    /\ \E sq \in {None, "1"}, jobs \in {None, "0", "2", "-1", "many"} :
        env = [NoEnv EXCEPT !["SIGMOND_SKIP_QUERY"] = sq, !["SIGMOND_BUILD_JOBS"] = jobs]
    /\ \E file \in {Missing} \cup {File(t) : t \in SetupTrees} :
        fs = [NoFiles EXCEPT ![search_paths[1]] = file]

\* files that set only some keys of the schema
SparseTrees ==
    {EmptyTree,
     [build |-> [enable_minuit |-> TRUE, verbose |-> TRUE]],
     [MinimalTree EXCEPT !["build"] = Drop(@, {"enable_testing"})],
     [MinimalTree EXCEPT !["libraries"] = Drop(@, {"minuit2"}),
                         !["build"]["enable_minuit"] = TRUE,
                         !["build"]["skip_query"] = TRUE]}

\* the extra definitions ["FOO", "BAR=2", {"BAZ": true}]
ExampleExtras ==
    PyList(<<PyStr("FOO"), PyStr("BAR=2"), PyDict(<<[k |-> "BAZ", v |-> PyBool(TRUE)]>>)>>)

ScenarioTrees ==
    SparseTrees
    \cup {[MinimalTree EXCEPT !["build"]["extra_cmake_definitions"] = ExampleExtras]}

\* Scenario inputs: a file that leaves keys to the defaults, a complete file
\* with the example list of extra definitions, or no file at all
InitScenario ==
    /\ caller = "cli"
    /\ clear_cache = FALSE
    /\ importable = TRUE
    /\ tomllib = TRUE
    /\ cpu_count \in {0, 2}
    /\ config_path = None
    /\ \E vb \in {None, "1"}, sb \in {None, "1"} :
        env = [NoEnv EXCEPT !["SIGMOND_VERBOSE"] = vb, !["SIGMOND_SKIP_BATCH"] = sb]
    /\ \E file \in {Missing} \cup {File(t) : t \in ScenarioTrees} :
        fs = [NoFiles EXCEPT ![search_paths[2]] = file]

\* extra definitions that repeat keys, name built-in keys, and carry values
\* with quotes, backslashes and boolean words
CacheExtras ==
    {PyList(<< >>),
     PyList(<<PyStr("PRECISION=single"), PyStr("FOO=1"),
              PyStr("HDF5_ROOT=/opt/hdf5-extra"), PyStr("FOO=2"),
              PyStr("CMAKE_BUILD_TYPE=Debug"),
              PyDict(<<[k |-> "CMAKE_C_COMPILER", v |-> PyStr("clang")]>>)>>),
     PyList(<<PyStr("BARE"), PyStr("TOOL_DIR=on"),
              PyDict(<<[k |-> "MY_COMPILER", v |-> PyBool(FALSE)],
                       [k |-> "CMAKE_CXX_FLAGS", v |-> PyStr("-DNAME=\"x\" -I\\inc")],
                       [k |-> "DATA_ROOT", v |-> PyStr("C:\\data\\")],
                       [k |-> "PYTHON_EXECUTABLE", v |-> PyStr("True")]>>)>>)}

\* the configured compilers: none, a pair that exists, a pair that does not
Compilers ==
    {[c |-> "", cxx |-> "", exist |-> FALSE],
     [c |-> "/usr/bin/cc", cxx |-> "/usr/bin/c++", exist |-> TRUE],
     [c |-> "C:\\llvm\\clang.exe", cxx |-> "C:\\llvm\\clang++.exe", exist |-> FALSE]}

\* a complete file for the cache-variable renderers
CacheTree(vb, comp, extra) ==
    [build |->
        [skip_query |-> FALSE, skip_batch |-> vb, enable_testing |-> ~vb,
         verbose |-> vb, precision |-> "double", numbers |-> "complex",
         default_file_format |-> "hdf5",
         enable_minuit |-> vb, enable_grace |-> FALSE,
         build_jobs |-> IntV(IF vb THEN MaxJobs ELSE 0),
         batch_install_dir |-> "", query_install_dir |-> "",
         extra_cmake_definitions |-> extra,
         default_ensembles_file |-> Path(vb, "/data/ensembles.xml")],
     libraries |->
        [hdf5 |-> [root_dir |-> Path(vb, "/opt/hdf5")],
         blas |-> [library_path |-> Path(vb, "/opt/lib/libblas.so")],
         lapack |-> [library_path |-> ""],
         accelerate |-> [framework_dir |-> ""],
         minuit2 |-> [include_dir |-> Path(vb, "/opt/minuit2/include"),
                      library_dir |-> ""],
         grace |-> [include_dir |-> "", library_dir |-> ""]],
     compiler |->
        [c_compiler |-> comp.c, cxx_compiler |-> comp.cxx, cxx_flags |-> << >>]]

\* Cache inputs: a caller that holds the object and calls the renderers,
\* with CONDA_PREFIX set or not and clear_cache true or false
InitCache ==
    /\ caller = "api"
    /\ importable = TRUE
    /\ tomllib = TRUE
    /\ cpu_count = 2
    /\ config_path = ExplicitPath
    /\ clear_cache \in BOOLEAN
    /\ \E vb \in BOOLEAN, comp \in Compilers, extra \in CacheExtras,
          shape \in {"full", "build_only"} :
        /\ shape = "build_only" => (comp.c = "" /\ extra = PyList(<< >>))
        /\ extra = PyList(<< >>) => ~vb
        /\ (\E i \in DOMAIN extra.xs : extra.xs[i] = PyStr("BARE")) => vb
        /\ env = [NoEnv EXCEPT !["CONDA_PREFIX"] = IF vb THEN None ELSE "/opt/conda"]
        /\ fs = (IF comp.exist
                 THEN (comp.c :> File(EmptyTree)) @@ (comp.cxx :> File(EmptyTree))
                 ELSE << >>)
                @@ [NoFiles EXCEPT ![ExplicitPath] =
                        File(Shape(CacheTree(vb, comp, extra), shape))]

Init ==
    /\ \/ InitLoader
       \/ InitMerge
       \/ InitValidate
       \/ InitRender
       \/ InitSetup
       \/ InitScenario
       \/ InitCache
    /\ command = ""
    /\ StartState

Spec == Init /\ [][Next]_vars

----------------------------------------------------------------------------
(* The command-line tool and the programs that query the object *)

\* the files the command-line tool is run on: complete, with an illegal
\* value, and without keys or sections
MainTrees ==
    SetupTrees \cup SparseTrees
    \cup {[MinimalTree EXCEPT !["build"]["skip_query"] = TRUE,
                              !["build"]["skip_batch"] = TRUE]}

\* main inputs: the subcommand (none included), the file in the working
\* directory, SIGMOND_VERBOSE, and --clear-cache for the two subcommands
\* that take it
InitMain ==
    /\ caller = "main"
    /\ importable = TRUE
    /\ tomllib = TRUE
    /\ cpu_count = 2
    /\ command \in Commands \cup {""}
    /\ config_path = IF command = "validate" THEN search_paths[1] ELSE None
    /\ clear_cache \in BOOLEAN
    /\ clear_cache => command \in {"generate-presets", "write-cache"}
    /\ \E vb \in {None, "1"} : env = [NoEnv EXCEPT !["SIGMOND_VERBOSE"] = vb]
    /\ \E file \in {Missing} \cup {File(t) : t \in MainTrees} :
        fs = [NoFiles EXCEPT ![search_paths[1]] = file]

\* a complete file for the accessors: the optional libraries enabled or not
\* with their paths given, build_jobs 0 or positive, flags for the compiler
QueryTree(mi, gr, extra) ==
    [MinimalTree EXCEPT
        !["build"]["enable_minuit"] = mi,
        !["build"]["enable_grace"] = gr,
        !["build"]["build_jobs"] = IntV(IF mi THEN 0 ELSE MaxJobs),
        !["build"]["extra_cmake_definitions"] = extra,
        !["libraries"]["minuit2"] =
            [include_dir |-> "/opt/minuit2/include", library_dir |-> "/opt/minuit2/lib"],
        !["libraries"]["grace"] =
            [include_dir |-> "/opt/grace/include", library_dir |-> "/opt/grace/lib"],
        !["compiler"]["cxx_flags"] = IF gr THEN <<"-O2", "-g">> ELSE << >>]

\* extra definitions that name a key of an optional library
LibraryExtras == PyList(<<PyStr("SIGMOND_MINUIT2_INCLUDE_DIR=/opt/extra/include")>>)

\* query inputs: a program that holds the object and calls accessors and
\* renderers on it, on a complete file or on one without build_jobs and
\* without the enable flags
InitQuery ==
    /\ caller = "query"
    /\ command = ""
    /\ importable = TRUE
    /\ tomllib = TRUE
    /\ config_path = ExplicitPath
    /\ cpu_count \in {0, 2}
    /\ env = NoEnv
    /\ \E mi \in BOOLEAN, gr \in BOOLEAN, sparse \in BOOLEAN :
        /\ sparse => (mi /\ gr /\ cpu_count = 2)
        /\ clear_cache = gr
        /\ fs = [NoFiles EXCEPT ![ExplicitPath] =
                    File(IF sparse
                         THEN [MinimalTree EXCEPT !["build"] =
                                Drop(@, {"build_jobs", "enable_minuit", "enable_grace"})]
                         ELSE QueryTree(mi, gr, IF ~mi /\ gr THEN LibraryExtras
                                                ELSE PyList(<< >>)))]

InitFacade ==
    /\ \/ InitMain
       \/ InitQuery
    /\ StartState

NextFacade ==
    \/ Main
    \/ CreateConfig
    \/ LoadConfig
    \/ ApplyEnvOverrides
    \/ ValidateConfig
    \/ GetCmakeArgs
    \/ WriteCache
    \/ GenerateCmakePresets
    \/ CallAccessor
    \/ ShowConfig
    \/ ValidateCommand
    \/ LoadFailed

SpecFacade == InitFacade /\ [][NextFacade]_vars

----------------------------------------------------------------------------
(* Properties of the resolution *)

\* the constructor returned: a SigmondConfig object exists
Constructed == cfgobj = "sigmond"

\* _apply_env_overrides has returned
OverridesApplied == pc \in {"merged", "invalid"} \/ Constructed

\* _load_config parsed a file and returned its tree
FileParsed == reads # << >> /\ fs[reads[Len(reads)]].status = "ok"

EnvOverridableKeys == {"skip_query", "skip_batch", "verbose", "default_ensembles_file"}

\* C1: after construction every schema key that the loaded file does not set,
\* a whole section or a key inside a section, holds its built-in default
\* (the keys an environment override may assign are left aside).
C1_UnsetKeysHoldDefaults ==
    Constructed =>
        LET defaults == default_config(cpu_count) IN
        \A section \in DOMAIN defaults :
            /\ section \in DOMAIN config
            /\ \A key \in DOMAIN defaults[section] :
                (key \notin DOMAIN Get(loaded, section, EmptyTree)
                 /\ ~(section = "build" /\ key \in EnvOverridableKeys))
                => /\ key \in DOMAIN config[section]
                   /\ config[section][key] = defaults[section][key]

\* C2: the loader and the merger never fail: construction never ends inside
\* _load_config or _apply_env_overrides with an exception.
C2_LoaderAndMergerNeverRaise == pc # "crashed"

\* the variable's value, lower-cased, is one of '1', 'true', 'yes'
C3_SetTrue(name) ==
    env[name] # None /\ Lower(env[name]) \in {"1", "true", "yes"}

\* C3: for skip_query, skip_batch and verbose the value after
\* _apply_env_overrides is (value before) OR (the variable says true): a flag
\* that was true stays true for every value of the variable, a false flag
\* becomes true exactly when the variable says true, and a flag the file
\* leaves out appears (as true) only when the variable says true.
C3_EnvOverrideMonotonic ==
    (OverridesApplied /\ "build" \in DOMAIN loaded) =>
        \A f \in Flags :
            LET before == loaded["build"]
                after == config["build"]
            IN  IF f[1] \in DOMAIN before
                THEN /\ f[1] \in DOMAIN after
                     /\ after[f[1]] = (before[f[1]] \/ C3_SetTrue(f[2]))
                     /\ before[f[1]] => after[f[1]]
                ELSE IF C3_SetTrue(f[2])
                     THEN f[1] \in DOMAIN after /\ after[f[1]] = TRUE
                     ELSE f[1] \notin DOMAIN after

\* C3 witness: the file has skip_query false, SIGMOND_SKIP_QUERY is 'yes', and
\* the flag is true after the override.
C3_Witness ==
    /\ OverridesApplied
    /\ "build" \in DOMAIN loaded
    /\ "skip_query" \in DOMAIN loaded["build"]
    /\ loaded["build"]["skip_query"] = FALSE
    /\ env["SIGMOND_SKIP_QUERY"] = "yes"
    /\ config["build"]["skip_query"] = TRUE

\* C4: _apply_env_overrides changes at most build.skip_query, build.skip_batch,
\* build.verbose and build.default_ensembles_file: every other key, and every
\* other section, is after the override as the loader returned it.
C4_EnvOverrideFrame ==
    OverridesApplied =>
        /\ DOMAIN config = DOMAIN loaded
        /\ \A section \in DOMAIN loaded \ {"build"} : config[section] = loaded[section]
        /\ "build" \in DOMAIN loaded =>
            /\ (DOMAIN config["build"]) \ EnvOverridableKeys
                 = (DOMAIN loaded["build"]) \ EnvOverridableKeys
            /\ \A key \in (DOMAIN loaded["build"]) \ EnvOverridableKeys :
                 config["build"][key] = loaded["build"][key]

\* C4 witness: an override changed the tree of a file that has all three
\* sections.
C4_Witness ==
    /\ OverridesApplied
    /\ config # loaded
    /\ DOMAIN loaded = {"build", "libraries", "compiler"}
    /\ env["SIGMOND_SKIP_BATCH"] = "yes"

\* the checks of the validator that the tree fails, each with the text that
\* names the check and quotes the offending value
C5_Violations ==
    LET build == Get(config, "build", EmptyTree)
        precision == Get(build, "precision", "double")
        numbers == Get(build, "numbers", "complex")
        format == Get(build, "default_file_format", "hdf5")
        jobs == Get(build, "build_jobs", IntV(0))
    IN  (IF precision \in {"double", "single"} THEN {}
         ELSE {"Invalid precision '" \o precision \o "'"})
        \cup (IF numbers \in {"complex", "real"} THEN {}
              ELSE {"Invalid numbers type '" \o numbers \o "'"})
        \cup (IF format \in {"hdf5", "fstream"} THEN {}
              ELSE {"Invalid file format '" \o format \o "'"})
        \cup (IF jobs.t = "int" /\ jobs.v >= 0 THEN {}
              ELSE {"Invalid build_jobs '" \o NumStr(jobs) \o "'"})

\* C5: _validate_config collects every violation before reporting: a tree that
\* fails k of the four checks raises one error with exactly k entries, one for
\* each failing check, naming the check and the offending value; a tree that
\* fails none is accepted.
C5_AllViolationsReported ==
    /\ pc = "invalid" =>
        /\ raised = "ValueError"
        /\ C5_Violations # {}
        /\ Len(errors) = Cardinality(C5_Violations)
        /\ \A v \in C5_Violations : \E i \in DOMAIN errors : StartsWith(errors[i], v)
    /\ Constructed => C5_Violations = {} /\ errors = << >>

\* C5 witness: precision and the file format are both 'bogus' and both are
\* reported, in one error with two entries.
C5_Witness ==
    /\ pc = "invalid"
    /\ Get(config["build"], "precision", "") = "bogus"
    /\ Get(config["build"], "default_file_format", "") = "bogus"
    /\ Get(config["build"], "numbers", "") = "real"
    /\ Len(errors) = 1 + 1
    /\ StartsWith(errors[1], "Invalid precision 'bogus'")
    /\ StartsWith(errors[Len(errors)], "Invalid file format 'bogus'")

\* C6: whenever construction succeeds the stored configuration holds
\* precision in {double, single}, numbers in {complex, real},
\* default_file_format in {hdf5, fstream} and an integer build_jobs >= 0.
C6_StoredValuesLegal ==
    Constructed =>
        /\ "build" \in DOMAIN config
        /\ {"precision", "numbers", "default_file_format", "build_jobs"}
              \subseteq DOMAIN config["build"]
        /\ config["build"]["precision"] \in {"double", "single"}
        /\ config["build"]["numbers"] \in {"complex", "real"}
        /\ config["build"]["default_file_format"] \in {"hdf5", "fstream"}
        /\ config["build"]["build_jobs"].t = "int"
        /\ config["build"]["build_jobs"].v >= 0

\* the steps of setup.py's build path that consume the configuration
BuildPathSteps ==
    {"generate_cmake_args", "configure_cmake", "build_cmake", "install_cmake"}

\* C7: when validation finds a violation resolution halts: no SigmondConfig is
\* produced, no renderer runs, and the build path of setup.py
\* (generate_cmake_args, configure, build, install) does not run.
C7_NothingRunsAfterInvalid ==
    errors # << >> =>
        /\ ~Constructed
        /\ args = << >>
        /\ \A i \in DOMAIN steps : steps[i] \notin BuildPathSteps

\* C8: a degraded load is never fatal and is always reported: when no file
\* was parsed (no parser, no candidate, a missing or unparseable file),
\* _load_config returns the defaults and prints a diagnostic.
C8_DegradedLoadReported ==
    (pc = "loaded" /\ ~FileParsed) =>
        /\ loaded = default_config(cpu_count)
        /\ output # << >>

\* the file _load_config is to choose: the explicit path if given, else the
\* file SIGMOND_CONFIG names, else the first existing standard location
\* (an empty string counts as not given)
C9_Chosen ==
    IF config_path \notin {None, ""} THEN config_path
    ELSE IF env["SIGMOND_CONFIG"] \notin {None, ""} THEN env["SIGMOND_CONFIG"]
    ELSE IF fs["./sigmond.toml"].status # "missing" THEN "./sigmond.toml"
    ELSE IF fs["./.sigmond.toml"].status # "missing" THEN "./.sigmond.toml"
    ELSE IF fs["~/.config/sigmond.toml"].status # "missing" THEN "~/.config/sigmond.toml"
    ELSE IF fs["/pkg/sigmond.toml"].status # "missing" THEN "/pkg/sigmond.toml"
    ELSE None

\* C9: _load_config opens at most one file, the one chosen by the fixed
\* precedence; no other file is ever opened, also when the chosen one is
\* missing or does not parse, and a parsed tree is the chosen file's tree.
C9_SingleLoadByPrecedence ==
    /\ Len(reads) <= 1
    /\ \A i \in DOMAIN reads : reads[i] = C9_Chosen
    /\ FileParsed => loaded = fs[C9_Chosen].tree
    /\ (pc = "loaded" /\ tomllib /\ C9_Chosen # None /\ fs[C9_Chosen].status # "missing")
          => reads = <<C9_Chosen>>

\* C9 witness: the explicit path names a missing file while standard
\* locations and the SIGMOND_CONFIG file exist; nothing is opened and the
\* defaults are used.
C9_Witness ==
    /\ pc = "loaded"
    /\ tomllib
    /\ config_path = ExplicitPath
    /\ fs[ExplicitPath].status = "missing"
    /\ env["SIGMOND_CONFIG"] = EnvPath
    /\ fs[EnvPath].status = "ok"
    /\ fs["./sigmond.toml"].status = "ok"
    /\ reads = << >>
    /\ loaded = default_config(cpu_count)

\* the definitions of get_cmake_args in the order the flag vector is to list
\* them; "extra" stands for the block of extra definitions
C10_Order ==
    <<"-DPRECISION=", "-DNUMBERS=", "-DDEFAULT_FILE_FORMAT=",
      "-DSKIP_SIGMOND_QUERY=", "-DSKIP_SIGMOND_BATCH=", "-DENABLE_MINUIT=",
      "-DENABLE_GRACE=",
      "-DSIGMOND_VERBOSE=", "-DCMAKE_FIND_DEBUG_MODE=",
      "-DENABLE_TESTING=",
      "-DSIGMOND_BATCH_INSTALL_DIR=", "-DSIGMOND_QUERY_INSTALL_DIR=",
      "-DDEFAULTENSFILE=",
      "extra",
      "-DHDF5_DIR=", "-DBLAS_LIBRARIES=", "-DLAPACK_LIBRARIES=",
      "-DSIGMOND_MINUIT2_INCLUDE_DIR=", "-DSIGMOND_MINUIT2_LIBRARY_DIR=",
      "-DSIGMOND_GRACE_INCLUDE_DIR=", "-DSIGMOND_GRACE_LIBRARY_DIR=",
      "-DSIGMOND_ACCELERATE_FRAMEWORK_DIR=",
      "-DCMAKE_C_COMPILER=", "-DCMAKE_CXX_COMPILER=">>

\* the place in C10_Order of the i-th argument: an extra definition by the
\* block that emitted it, every other argument by its key; 0 when unknown
C10_Rank(i) ==
    LET hits == {r \in DOMAIN C10_Order :
                    IF arg_src[i] = "extra" THEN C10_Order[r] = "extra"
                    ELSE StartsWith(args[i], C10_Order[r])}
    IN  IF Cardinality(hits) = 1 THEN CHOOSE r \in hits : TRUE ELSE 0

\* C10: the sequence returned by get_cmake_args is ordered by group (core,
\* toggles, verbose, testing, install directories, DEFAULTENSFILE, extra
\* definitions, libraries, compilers): no entry of a later group precedes an
\* entry of an earlier one.
C10_ArgsOrderedByGroup ==
    /\ Len(arg_src) = Len(args)
    /\ \A i \in DOMAIN args : C10_Rank(i) > 0
    /\ \A i, j \in DOMAIN args : i < j => C10_Rank(i) <= C10_Rank(j)

\* C10 witness: a flag vector with an entry of every group, the extra
\* definitions among them naming built-in keys.
C10_Witness ==
    /\ args # << >>
    /\ {arg_src[i] : i \in DOMAIN arg_src}
         = {"core", "toggle", "verbose", "testing", "install", "ensembles",
            "extra", "library", "compiler"}
    /\ \E i \in DOMAIN args : arg_src[i] = "extra" /\ StartsWith(args[i], "-DCMAKE_C_COMPILER=")

----------------------------------------------------------------------------
(* Properties of the flag vector *)

\* the last renderer call on the object was op
LastCall(op) == calls # << >> /\ calls[Len(calls)].op = op

\* the last renderer call was get_cmake_args and it returned its list
ArgsReturned == LastCall("get_cmake_args") /\ calls[Len(calls)].ok

\* the arguments that the extra-definitions block emitted, in args order
ExtraBlock ==
    LET idx == {i \in DOMAIN args : arg_src[i] = "extra"} IN
    IF idx = {} THEN << >>
    ELSE SubSeq(args, CHOOSE i \in idx : \A j \in idx : i <= j,
                      CHOOSE i \in idx : \A j \in idx : j <= i)

\* the extra-definitions value of the stored configuration
ExtraDefs == Get(Get(config, "build", EmptyTree), "extra_cmake_definitions", PyList(<< >>))

\* the definitions of one entry of the list, in the order of the entry
C11_EntryArgs(entry) ==
    IF entry.t = "str"
    THEN LET s == Strip(entry.s) IN IF StartsWith(s, "-D") THEN <<s>> ELSE <<"-D" \o s>>
    ELSE IF entry.t = "dict"
    THEN [i \in DOMAIN entry.items |->
            "-D" \o entry.items[i].k \o "=" \o coerce_value(entry.items[i].v)]
    ELSE << >>

RECURSIVE C11_InInputOrder(_)
C11_InInputOrder(xs) ==
    IF xs = << >> THEN << >> ELSE C11_EntryArgs(Head(xs)) \o C11_InInputOrder(Tail(xs))

\* C11: the extra-definitions list is rendered in input order with no
\* deduplication: the block of extra definitions in the flag vector is the
\* definitions of entry 1, then those of entry 2, and so on, whatever mix of
\* bare names, KEY=VALUE strings and key/value pairs the list holds.
C11_ExtrasInInputOrder ==
    (ArgsReturned /\ ExtraDefs.t = "list") => ExtraBlock = C11_InInputOrder(ExtraDefs.xs)

\* the KEY=VALUE form of one entry: NAME=ON for a bare name, the string as
\* given for KEY=VALUE, the coerced value for a pair
C12_Normalized(entry) ==
    IF entry.t = "str"
    THEN LET s == Strip(entry.s)
             body == IF StartsWith(s, "-D") THEN SubSeq(s, 3, Len(s)) ELSE s
         IN  IF Contains(body, "=") THEN <<"-D" \o body>> ELSE <<"-D" \o body \o "=ON">>
    ELSE IF entry.t = "dict"
    THEN [i \in DOMAIN entry.items |->
            "-D" \o entry.items[i].k \o "="
            \o (IF entry.items[i].v.t = "bool"
                THEN (IF entry.items[i].v.b THEN "ON" ELSE "OFF")
                ELSE IF entry.items[i].v.t = "list" THEN JoinSemi(entry.items[i].v.xs)
                ELSE PyToStr(entry.items[i].v))]
    ELSE << >>

\* C12: every entry of the extra-definitions list is normalized to KEY=VALUE
\* form: a bare name NAME is rendered -DNAME=ON, a KEY=VALUE string is
\* rendered as given with the -D prefix, a pair with its value coerced; the
\* list ["FOO", "BAR=2", {"BAZ": true}] renders as -DFOO=ON, -DBAR=2,
\* -DBAZ=ON in that order.
C12_ExtrasNormalized ==
    (ArgsReturned /\ ExtraDefs.t = "list") =>
        /\ \A i \in DOMAIN ExtraDefs.xs :
            \A j \in DOMAIN C12_Normalized(ExtraDefs.xs[i]) :
                \E a \in DOMAIN ExtraBlock : ExtraBlock[a] = C12_Normalized(ExtraDefs.xs[i])[j]
        /\ ExtraDefs = ExampleExtras => ExtraBlock = <<"-DFOO=ON", "-DBAR=2", "-DBAZ=ON">>

\* the definition of key name appears in the flag vector, emitted by the
\* code of its own group
Emitted(name) ==
    \E i \in DOMAIN args : arg_src[i] # "extra" /\ StartsWith(args[i], "-D" \o name \o "=")

\* the number of elements of args equal to a
Count(a) == Cardinality({i \in DOMAIN args : args[i] = a})

\* the path stored for a library, "" when the tree does not set it
LibPath(lib, key) ==
    Get(Get(Get(config, "libraries", EmptyTree), lib, EmptyTree), key, "")

BuildValue(key, dflt) == Get(Get(config, "build", EmptyTree), key, dflt)

\* C13: get_cmake_args renders sparsely: for every resolved configuration the
\* call returns a list in which an install directory, the default ensembles
\* file, a library path or a compiler is defined iff its value is non-empty,
\* a skip/enable/verbose definition appears iff its flag is true, and exactly
\* one of -DENABLE_TESTING=ON and -DENABLE_TESTING=OFF appears, also when the
\* file does not set enable_testing.
C13_SparseRendering ==
    (Constructed /\ LastCall("get_cmake_args")) =>
        /\ calls[Len(calls)].ok
        /\ Count("-DENABLE_TESTING=ON") + Count("-DENABLE_TESTING=OFF") = 1
        /\ Emitted("SIGMOND_BATCH_INSTALL_DIR") <=> BuildValue("batch_install_dir", "") # ""
        /\ Emitted("SIGMOND_QUERY_INSTALL_DIR") <=> BuildValue("query_install_dir", "") # ""
        /\ Emitted("DEFAULTENSFILE") <=> BuildValue("default_ensembles_file", "") # ""
        /\ Emitted("HDF5_DIR") <=> LibPath("hdf5", "root_dir") # ""
        /\ Emitted("BLAS_LIBRARIES") <=> LibPath("blas", "library_path") # ""
        /\ Emitted("LAPACK_LIBRARIES") <=> LibPath("lapack", "library_path") # ""
        /\ Emitted("SIGMOND_MINUIT2_INCLUDE_DIR") <=> LibPath("minuit2", "include_dir") # ""
        /\ Emitted("SIGMOND_MINUIT2_LIBRARY_DIR") <=> LibPath("minuit2", "library_dir") # ""
        /\ Emitted("SIGMOND_GRACE_INCLUDE_DIR") <=> LibPath("grace", "include_dir") # ""
        /\ Emitted("SIGMOND_GRACE_LIBRARY_DIR") <=> LibPath("grace", "library_dir") # ""
        /\ Emitted("SIGMOND_ACCELERATE_FRAMEWORK_DIR")
              <=> LibPath("accelerate", "framework_dir") # ""
        /\ Emitted("CMAKE_C_COMPILER")
              <=> Get(Get(config, "compiler", EmptyTree), "c_compiler", "") # ""
        /\ Emitted("CMAKE_CXX_COMPILER")
              <=> Get(Get(config, "compiler", EmptyTree), "cxx_compiler", "") # ""
        /\ Count("-DSKIP_SIGMOND_QUERY=ON") = (IF BuildValue("skip_query", FALSE) THEN 1 ELSE 0)
        /\ Count("-DSKIP_SIGMOND_BATCH=ON") = (IF BuildValue("skip_batch", FALSE) THEN 1 ELSE 0)
        /\ Count("-DENABLE_MINUIT=ON") = (IF BuildValue("enable_minuit", FALSE) THEN 1 ELSE 0)
        /\ Count("-DENABLE_GRACE=ON") = (IF BuildValue("enable_grace", FALSE) THEN 1 ELSE 0)
        /\ Count("-DSIGMOND_VERBOSE=ON") = (IF BuildValue("verbose", FALSE) THEN 1 ELSE 0)

\* the file layer is empty and no environment variable is set
C14_EmptyLayers ==
    /\ env = NoEnv
    /\ tomllib
    /\ config_path = None
    /\ \A p \in DOMAIN fs : fs[p].status = "missing" \/ fs[p] = File(EmptyTree)

\* C14: with an empty file layer and no environment variable set, resolution
\* yields precision double, numbers complex, default_file_format hdf5 and a
\* stored build_jobs of 0, and get_cmake_args returns exactly the three core
\* definitions and -DENABLE_TESTING=ON.
C14_DefaultScenario ==
    /\ (C14_EmptyLayers /\ Constructed) =>
        /\ BuildValue("precision", "") = "double"
        /\ BuildValue("numbers", "") = "complex"
        /\ BuildValue("default_file_format", "") = "hdf5"
        /\ BuildValue("build_jobs", IntV(0 - 1)) = IntV(0)
    /\ (C14_EmptyLayers /\ Constructed /\ LastCall("get_cmake_args")) =>
        /\ calls[Len(calls)].ok
        /\ calls[Len(calls)].value
             = <<"-DPRECISION=double", "-DNUMBERS=complex",
                 "-DDEFAULT_FILE_FORMAT=hdf5", "-DENABLE_TESTING=ON">>

\* the advisory conditions of the stored configuration, each with its text
C15_Conditions ==
    {<<"Minuit2 is enabled but no library paths specified. Auto-detection will be attempted.",
       /\ BuildValue("enable_minuit", FALSE)
       /\ LibPath("minuit2", "include_dir") = ""
       /\ LibPath("minuit2", "library_dir") = "">>,
     <<"Grace is enabled but no library paths specified. Auto-detection will be attempted.",
       /\ BuildValue("enable_grace", FALSE)
       /\ LibPath("grace", "include_dir") = ""
       /\ LibPath("grace", "library_dir") = "">>,
     <<"Both executables are disabled - only Python bindings will be built.",
       BuildValue("skip_query", FALSE) /\ BuildValue("skip_batch", FALSE)>>}

C15_Printed(text) == \E i \in DOMAIN output : output[i] = "  - " \o text

\* the file sets enable_minuit and verbose to true and no minuit2 path
C15_Scenario ==
    /\ FileParsed
    /\ "build" \in DOMAIN loaded
    /\ Get(loaded["build"], "enable_minuit", FALSE)
    /\ Get(loaded["build"], "verbose", FALSE)
    /\ LibPath("minuit2", "include_dir") = ""
    /\ LibPath("minuit2", "library_dir") = ""

\* C15: advisories never block resolution and are shown only in verbose mode:
\* construction fails only on a fatal violation, an advisory is printed iff
\* its condition holds and build.verbose is true after the overrides, and a
\* file with enable_minuit=true, no minuit2 paths and verbose=true resolves,
\* prints the Minuit2 advisory and has -DENABLE_MINUIT=ON in its flag vector.
C15_AdvisoriesNeverBlock ==
    /\ pc = "invalid" => C5_Violations # {}
    /\ Constructed =>
        \A c \in C15_Conditions :
            C15_Printed(c[1]) <=> (c[2] /\ BuildValue("verbose", FALSE))
    /\ (C15_Scenario /\ OverridesApplied /\ pc # "merged") =>
        /\ Constructed
        /\ C15_Printed("Minuit2 is enabled but no library paths specified. Auto-detection will be attempted.")
    /\ (C15_Scenario /\ Constructed /\ LastCall("get_cmake_args")) =>
        /\ calls[Len(calls)].ok
        /\ \E i \in DOMAIN args : args[i] = "-DENABLE_MINUIT=ON"

----------------------------------------------------------------------------
(* Properties of the cache file and of the preset document *)

CacheWritten == LastCall("write_cache") /\ calls[Len(calls)].ok

\* the lines of a text, each without its line end
SplitLines(text) ==
    LET NL == {i \in 1..Len(text) : SubSeq(text, i, i) = "\n"}
        nth(k) == CHOOSE i \in NL : Cardinality({j \in NL : j < i}) = k - 1
    IN  [k \in 1..Cardinality(NL) |->
            SubSeq(text, IF k = 1 THEN 1 ELSE nth(k - 1) + 1, nth(k) - 1)]

CacheTypes == {"BOOL", "FILEPATH", "PATH", "STRING"}

\* the end of a statement with type tag t
StatementEnd(t) == "\" CACHE " \o t \o " \"\")"

\* a line of the form set(KEY "VALUE" CACHE TYPE ""), KEY without a blank
IsStatement(line) ==
    /\ StartsWith(line, "set(")
    /\ Find(line, " ") > Len("set(") + 1
    /\ SubSeq(line, Find(line, " ") + 1, Find(line, " ") + 1) = "\""
    /\ \E t \in CacheTypes :
        /\ EndsWith(line, StatementEnd(t))
        /\ Len(line) >= Find(line, " ") + 1 + Len(StatementEnd(t))

\* the key, the text between the outer quotes and the type tag of a statement
ParseStatement(line) ==
    LET sp == Find(line, " ")
        typ == CHOOSE t \in CacheTypes : EndsWith(line, StatementEnd(t))
    IN  [k |-> SubSeq(line, Len("set(") + 1, sp - 1),
         v |-> SubSeq(line, sp + 1 + 1, Len(line) - Len(StatementEnd(typ))),
         typ |-> typ]

\* the cache file read back: whether every line is one statement, and the
\* statements in file order
ReadCache(text) ==
    LET lines == SplitLines(text)
        ok == \A i \in DOMAIN lines : IsStatement(lines[i])
    IN  [ok |-> ok,
         sts |-> IF ok THEN [i \in DOMAIN lines |-> ParseStatement(lines[i])] ELSE << >>]

Suffix(k, suffixes) == \E x \in suffixes : EndsWith(k, x)

\* the type tag by the fixed precedence: boolean words, then compiler keys,
\* then path suffixes, then STRING
C17_Tag(k, v) ==
    IF \E w \in {"ON", "OFF", "TRUE", "FALSE"} : Len(v) = Len(w) /\ Upper(v) = w THEN "BOOL"
    ELSE IF Suffix(k, {"_COMPILER"}) \/ k = "PYTHON_EXECUTABLE" THEN "FILEPATH"
    ELSE IF Suffix(k, {"_DIR", "_ROOT", "_PREFIX_PATH"}) THEN "PATH"
    ELSE "STRING"

\* keys that name a path and have none of the suffixes
C17_OtherPathKeys ==
    {"BLAS_LIBRARIES", "LAPACK_LIBRARIES", "CMAKE_BUILD_RPATH", "DEFAULTENSFILE"}

\* C17 as stated: the type tag of every statement follows the fixed
\* precedence of boolean words, compiler keys, path suffixes and STRING, and
\* every key naming a path, BLAS_LIBRARIES, CMAKE_BUILD_RPATH and
\* DEFAULTENSFILE among them, is tagged FILEPATH or PATH.
C17_PathKeysTaggedAsPaths ==
    CacheWritten =>
        LET file == ReadCache(cache_file.text) IN
        /\ file.ok
        /\ \A i \in DOMAIN file.sts :
            LET st == file.sts[i] IN
            /\ st.typ = C17_Tag(st.k, st.v)
            /\ (st.k \in C17_OtherPathKeys /\ C17_Tag(st.k, st.v) # "BOOL")
                  => st.typ \in {"FILEPATH", "PATH"}

\* C17 (amended): the type tag of every statement follows the fixed
\* precedence: BOOL for a value that is ON, OFF, TRUE or FALSE in any case,
\* whatever the key; otherwise FILEPATH for a key ending in _COMPILER or equal
\* to PYTHON_EXECUTABLE; otherwise PATH for a key ending in _DIR, _ROOT or
\* _PREFIX_PATH; otherwise STRING.  A key that names a path and has none of
\* these suffixes (BLAS_LIBRARIES, CMAKE_BUILD_RPATH, DEFAULTENSFILE) is
\* tagged STRING.
C17_TagByPrecedence ==
    CacheWritten =>
        LET file == ReadCache(cache_file.text) IN
        /\ file.ok
        /\ \A i \in DOMAIN file.sts :
            LET st == file.sts[i] IN
            /\ st.typ = C17_Tag(st.k, st.v)
            /\ (st.k \in C17_OtherPathKeys /\ C17_Tag(st.k, st.v) # "BOOL")
                  => st.typ = "STRING"

\* C17 witness: a cache file with a boolean word under a _DIR key and under
\* a _COMPILER key, tagged BOOL, beside PATH, FILEPATH and STRING statements,
\* BLAS_LIBRARIES and DEFAULTENSFILE among the latter.
C17_Witness ==
    /\ CacheWritten
    /\ LET sts == ReadCache(cache_file.text).sts IN
        /\ \E i \in DOMAIN sts : sts[i] = [k |-> "TOOL_DIR", v |-> "on", typ |-> "BOOL"]
        /\ \E i \in DOMAIN sts : sts[i] = [k |-> "MY_COMPILER", v |-> "OFF", typ |-> "BOOL"]
        /\ \E i \in DOMAIN sts : sts[i].k = "BLAS_LIBRARIES" /\ sts[i].typ = "STRING"
        /\ \E i \in DOMAIN sts : sts[i].k = "DEFAULTENSFILE" /\ sts[i].typ = "STRING"
        /\ {sts[i].typ : i \in DOMAIN sts} = CacheTypes

\* the positions of character c in s
Positions(s, c) == {i \in 1..Len(s) : SubSeq(s, i, i) = c}

\* the values of the cache variables before sanitization, in file order
RawValues ==
    LET cv == cache_vars(config, env, fs, clear_cache) IN [i \in DOMAIN cv |-> cv[i].v]

\* C18: every value written by write_cache is sanitized: between the outer
\* quotes of each statement a backslash occurs only immediately before a
\* double quote, every double quote is preceded by a backslash, and every
\* double quote of the original value is there, so no value ends the quoted
\* string early.
C18_ValuesSanitized ==
    CacheWritten =>
        LET file == ReadCache(cache_file.text)
            raws == RawValues
        IN
        /\ file.ok
        /\ Len(file.sts) = Len(raws)
        /\ \A i \in DOMAIN file.sts :
            LET v == file.sts[i].v
                raw == raws[i]
            IN  /\ \A b \in Positions(v, "\\") : b + 1 \in Positions(v, "\"")
                /\ \A d \in Positions(v, "\"") : d - 1 \in Positions(v, "\\")
                /\ Cardinality(Positions(v, "\"")) = Cardinality(Positions(raw, "\""))
                /\ Len(v) = Len(raw) + Cardinality(Positions(raw, "\""))

\* C18 witness: a value with double quotes and a backslash was written, and
\* a value that ends in a backslash.
C18_Witness ==
    /\ CacheWritten
    /\ LET sts == ReadCache(cache_file.text).sts
           raws == RawValues
       IN  /\ \E i \in DOMAIN raws :
                /\ Positions(raws[i], "\"") # {}
                /\ Positions(raws[i], "\\") # {}
                /\ Positions(sts[i].v, "\"") # {}
           /\ \E i \in DOMAIN raws : EndsWith(raws[i], "\\")

\* the key/value pairs the flag vector of the stored configuration defines
FlagItems == flag_items(get_cmake_args(config).args)

\* the value of the last definition of key k in the definitions defs
LastValue(defs, k) ==
    defs[CHOOSE i \in DOMAIN defs :
            /\ defs[i].k = k
            /\ \A j \in DOMAIN defs : defs[j].k = k => j <= i].v

\* the keys that defs defines more than once
RepeatedKeys(defs) ==
    {defs[i].k : i \in {a \in DOMAIN defs :
                            \E b \in DOMAIN defs : a # b /\ defs[a].k = defs[b].k}}

CompilerKeys == {"CMAKE_C_COMPILER", "CMAKE_CXX_COMPILER"}

\* a statement of sts has key k and carries v, sanitized
Carries(sts, k, v) ==
    \E i \in DOMAIN sts :
        /\ sts[i].k = k
        /\ sts[i].v = Replace(Replace(v, "\\", "/"), "\"", "\\\"")

\* one statement per line and per key
OneStatementPerKey(file) ==
    /\ file.ok
    /\ \A i, j \in DOMAIN file.sts : file.sts[i].k = file.sts[j].k => i = j

PresetsWritten == LastCall("generate_cmake_presets") /\ calls[Len(calls)].ok

----------------------------------------------------------------------------
(* Properties of the cache variables *)

\* the keys of a sequence of key/value entries
Keys(xs) == {xs[i].k : i \in DOMAIN xs}

\* a value as the cache file holds it: backslashes turned into slashes, then
\* double quotes escaped
Sanitized(v) == Replace(Replace(v, "\\", "/"), "\"", "\\\"")

\* the entries derived from CONDA_PREFIX in this run
CondaItems == conda_cache_vars(EnvGet(env, "CONDA_PREFIX", ""))

\* the cacheVariables of the release configure preset of the written document
ReleaseVariables == presets_file.doc.configurePresets[1].cacheVariables

\* the value the layering gives key k: the last definition of the flag
\* vector, else the CONDA_PREFIX entry, else the base entry
C21_LayeredValue(k) ==
    IF k \in Keys(FlagItems) THEN LastValue(FlagItems, k)
    ELSE IF k \in Keys(CondaItems) THEN LastValue(CondaItems, k)
    ELSE LastValue(base_cache_vars, k)

\* the entries xs, apart from the compiler keys, are the keys of the three
\* layers, each with its layered value (sanitized in the cache file)
C21_Layered(xs, sanitized) ==
    /\ Keys(xs) \ CompilerKeys
         = (Keys(base_cache_vars) \cup Keys(CondaItems) \cup Keys(FlagItems)) \ CompilerKeys
    /\ \A i \in DOMAIN xs :
         xs[i].k \notin CompilerKeys =>
            xs[i].v = IF sanitized THEN Sanitized(C21_LayeredValue(xs[i].k))
                      ELSE C21_LayeredValue(xs[i].k)

\* C21: in generate_cmake_presets and in write_cache the cache variables are
\* the fixed base entries, then the CONDA_PREFIX entries (none when
\* CONDA_PREFIX is empty), then the definitions of the flag vector, and a
\* later layer replaces the whole value: a key of the base or CONDA_PREFIX
\* layer that the configuration defines too ends with the configuration's
\* value.
C21_CacheVariablesLayered ==
    /\ PresetsWritten => C21_Layered(ReleaseVariables, FALSE)
    /\ CacheWritten =>
         LET file == ReadCache(cache_file.text) IN
         file.ok /\ C21_Layered(file.sts, TRUE)

\* C21 witness: with CONDA_PREFIX set, the extra definitions define
\* HDF5_ROOT and CMAKE_BUILD_TYPE, and the written preset holds their values
\* after a cache file was written in the same run.
C21_Witness ==
    /\ PresetsWritten
    /\ cache_file.exists
    /\ env["CONDA_PREFIX"] = "/opt/conda"
    /\ \E i \in DOMAIN ReleaseVariables :
         ReleaseVariables[i] = Item("HDF5_ROOT", "/opt/hdf5-extra")
    /\ \E i \in DOMAIN ReleaseVariables :
         ReleaseVariables[i] = Item("CMAKE_BUILD_TYPE", "Debug")
    /\ \E i \in DOMAIN ReleaseVariables :
         ReleaseVariables[i] = Item("CMAKE_PREFIX_PATH", "/opt/conda")

\* a quoted argument as CMake reads it: \" stands for a double quote
RECURSIVE Unescaped(_)
Unescaped(s) ==
    IF s = "" THEN ""
    ELSE IF Len(s) >= 1 + 1 /\ SubSeq(s, 1, 1 + 1) = "\\\""
    THEN "\"" \o Unescaped(SubSeq(s, 1 + 1 + 1, Len(s)))
    ELSE SubSeq(s, 1, 1) \o Unescaped(Tail(s))

\* the key/value pairs of a sequence of entries
Pairs(xs) == {Item(xs[i].k, xs[i].v) : i \in DOMAIN xs}

\* both targets were written in this run, by the last two calls
BothWritten ==
    /\ Len(calls) >= 1 + 1
    /\ calls[Len(calls)].ok
    /\ calls[Len(calls) - 1].ok
    /\ {calls[Len(calls)].op, calls[Len(calls) - 1].op}
         = {"write_cache", "generate_cmake_presets"}

\* C22: the cache file and the preset document are consistent: the key/value
\* pairs written by write_cache are those of the cacheVariables of the
\* release configure preset written by generate_cmake_presets, and every
\* definition of get_cmake_args is in both with the same value unless a later
\* definition of the same key or the compiler handling replaced it.
C22_CacheAndPresetsConsistent ==
    BothWritten =>
        LET file == ReadCache(cache_file.text)
            written == [i \in DOMAIN file.sts |->
                            Item(file.sts[i].k, Unescaped(file.sts[i].v))]
            defs == FlagItems
        IN  /\ file.ok
            /\ Pairs(written) = Pairs(ReleaseVariables)
            /\ \A i \in DOMAIN defs :
                 (/\ defs[i].k \notin CompilerKeys
                  /\ \A j \in DOMAIN defs : defs[j].k = defs[i].k => j <= i)
                 => /\ defs[i] \in Pairs(written)
                    /\ defs[i] \in Pairs(ReleaseVariables)

----------------------------------------------------------------------------
(* Properties of the query facade and of the command-line tool *)

\* the mark of a tree that does not set build_jobs
NoJobs == [t |-> "none", v |-> 0]

\* the build_jobs value of a tree
StoredJobs(tree) == Get(Get(tree, "build", EmptyTree), "build_jobs", NoJobs)

\* the count get_build_jobs detects: os.cpu_count(), 1 when it is unknown
C23_Detected == IF cpu_count = 0 THEN 1 ELSE cpu_count

\* C23: the job count is resolved lazily: the constructed object stores the
\* build_jobs value that was loaded, unchanged (a configured 0 stays 0), and
\* every call of get_build_jobs that returns gives the stored value when it
\* is positive and otherwise the detected count, which is at least 1; it
\* never returns 0 or a negative number and leaves the stored value as it was.
C23_JobCountLazy ==
    Constructed =>
        /\ StoredJobs(config) = StoredJobs(loaded)
        /\ \A i \in DOMAIN calls :
             (calls[i].op = "get_build_jobs" /\ calls[i].ok) =>
                /\ StoredJobs(config) # NoJobs
                /\ calls[i].value >= 1
                /\ calls[i].value = IF StoredJobs(config).v > 0
                                    THEN StoredJobs(config).v ELSE C23_Detected

\* C23 witness: build_jobs is 0 in the file, the CPU count is unknown, and
\* get_build_jobs returned 1 twice while the stored value is still 0.
C23_Witness ==
    /\ Constructed
    /\ cpu_count = 0
    /\ StoredJobs(config) = IntV(0)
    /\ Len(calls) = 1 + 1
    /\ \A i \in DOMAIN calls :
         calls[i].op = "get_build_jobs" /\ calls[i].ok /\ calls[i].value = 1

\* C24: the resolved configuration is immutable after construction: no call
\* of an accessor or of a renderer (get_cmake_args, generate_cmake_presets,
\* write_cache, with clear_cache true or false) changes any key of the stored
\* configuration.
C24_ConfigurationImmutable == [][Constructed => config' = config]_vars

\* C24 witness: get_build_jobs resolved a stored 0 and generate_cmake_presets
\* then wrote its document with clear_cache true, and the stored
\* configuration is still the tree that was loaded.
C24_Witness ==
    /\ Constructed
    /\ clear_cache
    /\ Len(calls) = 1 + 1
    /\ calls[1].op = "get_build_jobs" /\ calls[1].ok
    /\ PresetsWritten
    /\ StoredJobs(config) = IntV(0)
    /\ config = loaded

\* main has returned
Exited == caller = "main" /\ exit_code # NoExit

\* the subcommand did what it is for: its renderer returned its list or True,
\* show_config and validate_config found an object, create_config ran
C25_Succeeded ==
    \/ command \in {"generate-presets", "cmake-args", "write-cache"}
         /\ calls # << >> /\ calls[1].ok
    \/ command = "show" /\ Constructed
    \/ command = "validate" /\ Constructed /\ validate_file(config).ok
    \/ command = "create"

\* C25: every subcommand ends with exit code 0 when it succeeds and with
\* exit code 1 when resolution fails fatally (a validation error while the
\* configuration is loaded): no subcommand reports 0 after such a failure.
C25_ExitCodes ==
    Exited =>
        /\ errors # << >> => exit_code = 1
        /\ (errors = << >> /\ C25_Succeeded) => exit_code = 0

\* the targets of the two renderers that write, and the lines they print
\* when the write fails
WritingRenderers == {"write_cache", "generate_cmake_presets"}

C26_ErrorLine(op) ==
    IF op = "write_cache" THEN "Error writing cache: [Errno] " \o CachePath
    ELSE "Error generating presets: [Errno] " \o PresetsPath

\* the target of op after a first render that succeeds
C26_FirstRender(op) ==
    IF op = "write_cache"
    THEN [exists |-> TRUE, text |-> write_cache(config, env, fs, clear_cache).text]
    ELSE [exists |-> TRUE, partial |-> FALSE,
          doc |-> presets_document(config, env, fs, clear_cache, cpu_count)]

\* the call of a writing renderer that did not raise and did not return True:
\* its write failed
C26_WriteFailed(i) ==
    /\ calls[i].op \in WritingRenderers
    /\ calls[i].raised = ""
    /\ ~calls[i].ok

\* C26: a render I/O failure is reported, not raised: a write_cache or
\* generate_cmake_presets that cannot write its target prints the cause,
\* returns False without raising, and leaves the stored configuration as it
\* was; the write-cache and generate-presets subcommands then exit with
\* code 1; and a retry of the same call that can write succeeds with the
\* content of a first-time render.
C26_RenderFailureReported ==
    \A i \in DOMAIN calls :
        C26_WriteFailed(i) =>
            /\ raised = "" \/ i < Len(calls)
            /\ config = apply_env_overrides(loaded, env).config
            /\ i = Len(calls) => output[Len(output)] = C26_ErrorLine(calls[i].op)
            /\ caller = "main" => exit_code = 1
            /\ (i < Len(calls) /\ calls[i + 1].op = calls[i].op /\ calls[i + 1].ok) =>
                    calls[i + 1].value = C26_FirstRender(calls[i].op)

\* C26 witness: write_cache failed and left a part of the text, and the
\* retry wrote the file.
C26_Witness ==
    /\ Len(calls) = 1 + 1
    /\ C26_WriteFailed(1)
    /\ calls[1].op = "write_cache"
    /\ calls[1].value.exists
    /\ CacheWritten
    /\ cache_file = C26_FirstRender("write_cache")

----------------------------------------------------------------------------
(* Properties of the compiler variables *)

\* the configured path of the compiler that cache variable k names
ConfiguredCompiler(k) ==
    Get(config["compiler"],
        IF k = "CMAKE_C_COMPILER" THEN "c_compiler" ELSE "cxx_compiler", "")

\* every compiler variable among the entries xs names a configured compiler
\* whose path is non-empty and exists
C27_OnlyExisting(xs) ==
    \A i \in DOMAIN xs :
        xs[i].k \in CompilerKeys =>
            /\ ConfiguredCompiler(xs[i].k) # ""
            /\ Exists(fs, ConfiguredCompiler(xs[i].k))

\* C27: when clear_cache is false, CMAKE_C_COMPILER (and CMAKE_CXX_COMPILER)
\* is among the cache variables of generate_cmake_presets and of write_cache
\* only if the configured compiler path is non-empty and exists; a configured
\* path that does not exist never reaches the preset document or the cache
\* file.
C27_CompilerOnlyIfExists ==
    ~clear_cache =>
        /\ PresetsWritten => C27_OnlyExisting(ReleaseVariables)
        /\ CacheWritten =>
             LET file == ReadCache(cache_file.text) IN
             file.ok /\ C27_OnlyExisting(file.sts)

\* both compiler variables are among the entries xs, with the empty string
\* as their only value
C28_Blank(xs) ==
    /\ CompilerKeys \subseteq Keys(xs)
    /\ \A i \in DOMAIN xs : xs[i].k \in CompilerKeys => xs[i].v = ""

\* C28: when clear_cache is true, generate_cmake_presets and write_cache emit
\* CMAKE_C_COMPILER and CMAKE_CXX_COMPILER with the empty string as value,
\* whatever compiler.c_compiler and compiler.cxx_compiler hold and whatever
\* extra definition names those keys.
C28_ClearCacheBlanksCompilers ==
    clear_cache =>
        /\ PresetsWritten => C28_Blank(ReleaseVariables)
        /\ CacheWritten =>
             LET file == ReadCache(cache_file.text) IN
             file.ok /\ C28_Blank(file.sts)

\* C28 witness: with compilers configured that exist and an extra definition
\* of CMAKE_C_COMPILER, the cache file was written with clear_cache true
\* after the preset document, and both hold the blank compiler variables.
C28_Witness ==
    /\ clear_cache
    /\ CacheWritten
    /\ presets_file.exists
    /\ ConfiguredCompiler("CMAKE_C_COMPILER") = "/usr/bin/cc"
    /\ Exists(fs, "/usr/bin/cc")
    /\ Item("CMAKE_C_COMPILER", "clang") \in Pairs(FlagItems)
    /\ Item("CMAKE_C_COMPILER", "/usr/bin/cc") \in Pairs(FlagItems)
    /\ C28_Blank(ReleaseVariables)
    /\ C28_Blank(ReadCache(cache_file.text).sts)

----------------------------------------------------------------------------
(* Properties of the optional libraries *)

\* the flag vector xs defines one of the keys ks
Defines(xs, ks) ==
    \E i \in DOMAIN xs : \E k \in ks : StartsWith(xs[i], "-D" \o k \o "=")

\* the enable flag of the resolved configuration, false by default
EnableFlag(name) == Get(Get(config, "build", EmptyTree), name, FALSE)

\* C29: optional-library definitions follow the enable flags: get_cmake_args
\* holds a SIGMOND_MINUIT2_INCLUDE_DIR or SIGMOND_MINUIT2_LIBRARY_DIR
\* definition only if enable_minuit is true, and then holds -DENABLE_MINUIT=ON
\* too, likewise for grace with enable_grace; and
\* _get_enabled_optional_libraries returns exactly the libraries whose enable
\* flag is true, minuit2 before grace.
C29_OptionalLibrariesFollowFlags ==
    (caller = "query" /\ calls # << >>) =>
        LET c == calls[Len(calls)] IN
        /\ (c.op = "get_cmake_args" /\ c.raised = "") =>
              /\ Defines(c.value, {"SIGMOND_MINUIT2_INCLUDE_DIR",
                                   "SIGMOND_MINUIT2_LIBRARY_DIR"})
                    => /\ EnableFlag("enable_minuit")
                       /\ \E i \in DOMAIN c.value : c.value[i] = "-DENABLE_MINUIT=ON"
              /\ Defines(c.value, {"SIGMOND_GRACE_INCLUDE_DIR",
                                   "SIGMOND_GRACE_LIBRARY_DIR"})
                    => /\ EnableFlag("enable_grace")
                       /\ \E i \in DOMAIN c.value : c.value[i] = "-DENABLE_GRACE=ON"
        /\ c.op = "_get_enabled_optional_libraries" =>
              /\ c.raised = ""
              /\ c.value = (IF EnableFlag("enable_minuit") THEN <<"minuit2">> ELSE << >>)
                              \o (IF EnableFlag("enable_grace") THEN <<"grace">> ELSE << >>)

----------------------------------------------------------------------------
(* Properties of the extension build of setup.py *)

\* the steps of CMakeBuild.run and build_extension, in the order of the code
BuildOrder ==
    <<"check_cmake_available", "load_configuration", "validate_build_environment",
      "prepare_build_directory", "generate_cmake_args", "setup_build_environment",
      "configure_cmake", "build_cmake", "install_cmake">>

\* C30: the steps of one extension build happen in a fixed order: cmake
\* availability check, configuration load, validate_build_environment,
\* prepare_build_directory, configure_cmake, build_cmake, install_cmake; each
\* step starts only when the one before it has not raised, and once a step
\* has raised no later step runs.
C30_BuildStepsInOrder ==
    /\ [](Len(steps) <= Len(BuildOrder) /\ steps = SubSeq(BuildOrder, 1, Len(steps)))
    /\ [][steps' # steps => (raised = "" /\ pc # "aborted")]_vars
    /\ [][pc = "aborted" => (pc' = "aborted" /\ steps' = steps)]_vars

\* C30 witness: build_cmake raised after configure_cmake succeeded, and the
\* build stopped there.
C30_Witness ==
    /\ caller = "setup"
    /\ pc = "aborted"
    /\ raised = "RuntimeError"
    /\ Len(steps) = Len(BuildOrder) - 1
    /\ steps[Len(steps)] = "build_cmake"

====
